---- MODULE Spec2Model ----
(***************************************************************************)
(* Cotton GDD / phenophase / pest-risk engine of src/updated.py.           *)
(*                                                                         *)
(* Encodings                                                               *)
(*   dates         day of the year 1..365 of one non-leap year             *)
(*   temperatures  tenths of a degree Celsius                              *)
(*   GDD           twentieths of a degree-day, so that                     *)
(*                 ((tmax + tmin) / 2) - 15.6 is the integer               *)
(*                 tmax10 + tmin10 - 2 * 156; a catalog bound of g         *)
(*                 degree-days is 20 * g                                   *)
(*   weights       tenths (0.4 is 4); a risk percentage is                 *)
(*                 (score * 100) \div total, exact for every rule of the   *)
(*                 catalogs since every total is 10                        *)
(*   missing       NaN (pandas NaN / Python None)                          *)
(*   window labels the source's labels with an ASCII hyphen                *)
(* Float rounding of the running sums is not modelled.                     *)
(***************************************************************************)
EXTENDS Integers, Sequences, FiniteSets, TLC

VARIABLES
    call,               \* Spec: the direct call made and its result
    kind,               \* SpecScan: "insect" or "disease", the scanner running
    db,                 \* the grid's rows of farmer_grid_weather_data, by date
    hist_sowing_date, hist_end_date, hist_p4_start_date, hist_pbw_gdd, hist_risk_threshold,  \* arguments
    pc,                 \* "fetch", "loop", "done"
    hist_weather_data,       \* the fetched frame
    idx,                \* rows of hist_weather_data the for loop has taken
    hist_cumulative_gdd,
    risk_days, first_dates, max_risks, max_risk_dates,
                        \* insect_risk_days, insect_first_dates, insect_max_risks,
                        \* insect_max_risk_dates (disease_... in the disease scan)
    counted,            \* history: <<name, date, risk>> of every += 1 of risk_days
    result

scan_vars == <<kind, db, hist_sowing_date, hist_end_date, hist_p4_start_date, hist_pbw_gdd, hist_risk_threshold,
               pc, hist_weather_data, idx, hist_cumulative_gdd, risk_days, first_dates, max_risks,
               max_risk_dates, counted, result>>

vars == <<call, scan_vars>>

\* ------------------------------------------------------------------ values

NaN == -9999

None == "None"

Min2(a, b) == IF a <= b THEN a ELSE b

Max2(a, b) == IF a >= b THEN a ELSE b

\* A catalog bound in degree-days, in the model's GDD unit.
Gdd(g) == 20 * g

\* ------------------------------------------------------------------- dates

DaysInMonth == <<31, 28, 31, 30, 31, 30, 31, 31, 30, 31, 30, 31>>

RECURSIVE DaysBefore(_)
DaysBefore(m) == IF m = 1 THEN 0 ELSE DaysBefore(m - 1) + DaysInMonth[m - 1]

\* datetime.date(year, m, d) as a day of the year.
MkDate(m, d) == DaysBefore(m) + d

\* date.month
month(date) == CHOOSE m \in 1..12 : DaysBefore(m) < date /\ date <= DaysBefore(m) + DaysInMonth[m]

\* date.day
day(date) == date - DaysBefore(month(date))

Dates == 1..365

\* ------------------------------------------------------- threshold catalog

Phenophases == <<"P1", "P2", "P3", "P4", "P5", "P6", "P7", "P8", "P9", "P10">>

\* Position of a phenophase code in the order P0 < P1 < ... < P10.
Rank(p) == IF p = "P0" THEN 0 ELSE CHOOSE i \in 1..10 : Phenophases[i] = p

Windows ==
    <<"May 20-23", "May 24-27", "May 28-31", "June 1-4", "June 5-8", "June 9-12",
      "June 13-16", "June 17-20", "June 21-24", "June 25-28", "June 29-July 2",
      "July 3-6", "July 7-10", "July 11-14", "July 15">>

WindowSet == {Windows[i] : i \in 1..Len(Windows)}

\* A catalog whose rows all carry a P5 lower bound below the P4 one.
phenophase_thresholds_dip(w) ==
    << <<64, 71>>, <<240, 273>>, <<293, 343>>, <<351, 351>>, <<346, 424>>, <<818, 940>>,
       <<931, 1093>>, <<1114, 1272>>, <<1199, 1346>>, <<1285, 1500>> >>

\* phenophase_thresholds[w]: the (min_gdd, max_gdd) pairs of P1..P10, in the
\* dict's insertion order, in degree-days as written in the source.
phenophase_thresholds(w) ==
    CASE w = "May 20-23" -> << <<69, 73>>, <<259, 279>>, <<316, 351>>, <<502, 550>>, <<609, 665>>, <<883, 962>>, <<1004, 1115>>, <<1202, 1298>>, <<1294, 1375>>, <<1369, 1502>> >>
      [] w = "May 24-27" -> << <<67, 71>>, <<253, 272>>, <<308, 343>>, <<491, 537>>, <<595, 649>>, <<862, 938>>, <<981, 1087>>, <<1174, 1266>>, <<1263, 1342>>, <<1336, 1469>> >>
      [] w = "May 28-31" -> << <<65, 69>>, <<246, 265>>, <<301, 350>>, <<479, 523>>, <<580, 633>>, <<841, 914>>, <<957, 1060>>, <<1146, 1235>>, <<1233, 1309>>, <<1303, 1436>> >>
      [] w = "June 1-4" -> << <<64, 71>>, <<240, 273>>, <<293, 343>>, <<351, 351>>, <<364, 424>>, <<818, 940>>, <<931, 1093>>, <<1114, 1272>>, <<1199, 1346>>, <<1270, 1403>> >>
      [] w = "June 5-8" -> << <<62, 70>>, <<234, 269>>, <<286, 337>>, <<455, 529>>, <<551, 639>>, <<799, 924>>, <<910, 1075>>, <<1089, 1251>>, <<1172, 1325>>, <<1237, 1370>> >>
      [] w = "June 9-12" -> << <<60, 68>>, <<228, 264>>, <<279, 330>>, <<444, 519>>, <<538, 627>>, <<779, 908>>, <<887, 1057>>, <<1062, 1230>>, <<1143, 1304>>, <<1204, 1337>> >>
      [] w = "June 13-16" -> << <<59, 66>>, <<222, 259>>, <<271, 323>>, <<432, 508>>, <<524, 615>>, <<759, 892>>, <<864, 1039>>, <<1035, 1209>>, <<1114, 1283>>, <<1171, 1304>> >>
      [] w = "June 17-20" -> << <<56, 58>>, <<216, 253>>, <<271, 317>>, <<379, 443>>, <<410, 479>>, <<737, 838>>, <<859, 949>>, <<917, 1019>>, <<1014, 1068>>, <<1138, 1271>> >>
      [] w = "June 21-24" -> << <<55, 57>>, <<210, 247>>, <<263, 311>>, <<368, 433>>, <<398, 467>>, <<716, 822>>, <<834, 931>>, <<891, 999>>, <<986, 1050>>, <<1105, 1238>> >>
      [] w = "June 25-28" -> << <<53, 55>>, <<204, 241>>, <<256, 305>>, <<358, 423>>, <<387, 456>>, <<695, 805>>, <<810, 913>>, <<865, 979>>, <<957, 1031>>, <<1072, 1205>> >>
      [] w = "June 29-July 2" -> << <<52, 54>>, <<198, 235>>, <<248, 299>>, <<347, 413>>, <<376, 444>>, <<675, 789>>, <<786, 895>>, <<839, 959>>, <<928, 1013>>, <<1039, 1172>> >>
      [] w = "July 3-6" -> << <<50, 52>>, <<190, 226>>, <<238, 284>>, <<338, 396>>, <<364, 430>>, <<653, 771>>, <<761, 900>>, <<811, 961>>, <<895, 1008>>, <<1006, 1139>> >>
      [] w = "July 7-10" -> << <<49, 52>>, <<187, 226>>, <<235, 284>>, <<333, 396>>, <<360, 430>>, <<646, 771>>, <<752, 900>>, <<802, 961>>, <<885, 1008>>, <<1000, 1106>> >>
      [] w = "July 11-14" -> << <<49, 50>>, <<187, 220>>, <<235, 276>>, <<333, 386>>, <<360, 418>>, <<646, 752>>, <<752, 876>>, <<802, 935>>, <<885, 976>>, <<1000, 1073>> >>
      [] w = "July 15" -> << <<49, 49>>, <<187, 214>>, <<235, 268>>, <<333, 375>>, <<360, 406>>, <<646, 732>>, <<752, 852>>, <<802, 908>>, <<885, 944>>, <<1000, 1040>> >>

phenophase_descriptions ==
    <<"Emergence", "First square", "First flower", "Peak flowering", "First boll",
      "Boll development", "First boll open", "50% boll open", "90% boll open",
      "Harvest ready">>

\* The lower bound of phenophase number i of window w, in GDD units.
min_gdd(w, i) == Gdd(phenophase_thresholds(w)[i][1])

\* ------------------------------------------------- sowing window classifier

determine_sowing_window_shifted(sowing_date) ==
    LET m == month(sowing_date)
        d == day(sowing_date)
    IN  IF m = 5 THEN
            IF 20 <= d /\ d <= 23 THEN "May 20-23"
            ELSE IF 24 <= d /\ d <= 27 THEN "May 24-27"
            ELSE IF 28 <= d /\ d <= 31 THEN "May 28-31"
            ELSE None
        ELSE IF m = 6 THEN
            IF 1 <= d /\ d <= 4 THEN "June 1-4"
            ELSE IF 5 <= d /\ d <= 8 THEN "June 5-8"
            ELSE IF 9 <= d /\ d <= 12 THEN "June 9-12"
            ELSE IF 13 <= d /\ d <= 16 THEN "June 13-16"
            ELSE IF 17 <= d /\ d <= 20 THEN "June 17-20"
            ELSE IF 21 <= d /\ d <= 24 THEN "June 21-24"
            ELSE IF 25 <= d /\ d <= 28 THEN "June 25-28"
            ELSE IF 29 <= d /\ d <= 30 THEN "June 29-July 2"
            ELSE None
        ELSE IF m = 7 THEN
            IF 1 <= d /\ d <= 2 THEN "June 29-July 2"
            ELSE IF 3 <= d /\ d <= 6 THEN "July 3-6"
            ELSE IF 7 <= d /\ d <= 10 THEN "July 7-10"
            ELSE IF 11 < d /\ d <= 14 THEN "July 11-14"
            ELSE IF d = 15 THEN "July 15"
            ELSE None
        ELSE None

determine_sowing_window(sowing_date) ==
    LET m == month(sowing_date)
        d == day(sowing_date)
    IN  IF m = 5 THEN
            IF 20 <= d /\ d <= 23 THEN "May 20-23"
            ELSE IF 24 <= d /\ d <= 27 THEN "May 24-27"
            ELSE IF 28 <= d /\ d <= 31 THEN "May 28-31"
            ELSE None
        ELSE IF m = 6 THEN
            IF 1 <= d /\ d <= 4 THEN "June 1-4"
            ELSE IF 5 <= d /\ d <= 8 THEN "June 5-8"
            ELSE IF 9 <= d /\ d <= 12 THEN "June 9-12"
            ELSE IF 13 <= d /\ d <= 16 THEN "June 13-16"
            ELSE IF 17 <= d /\ d <= 20 THEN "June 17-20"
            ELSE IF 21 <= d /\ d <= 24 THEN "June 21-24"
            ELSE IF 25 <= d /\ d <= 28 THEN "June 25-28"
            ELSE IF 29 <= d /\ d <= 30 THEN "June 29-July 2"
            ELSE None
        ELSE IF m = 7 THEN
            IF 1 <= d /\ d <= 2 THEN "June 29-July 2"
            ELSE IF 3 <= d /\ d <= 6 THEN "July 3-6"
            ELSE IF 7 <= d /\ d <= 10 THEN "July 7-10"
            ELSE IF 11 <= d /\ d <= 14 THEN "July 11-14"
            ELSE IF d = 15 THEN "July 15"
            ELSE None
        ELSE None

\* ---------------------------------------------------------------- daily GDD

tbase == 156

tupper == 340

\* The daily GDD with tmax left uncapped.
calculate_gdd_uncapped(tmax, tmin) ==
    IF tmax = NaN \/ tmin = NaN THEN 0
    ELSE (tmax + Max2(tmin, tbase)) - 2 * tbase

\* ((min(tmax, tupper) + max(tmin, tbase)) / 2) - tbase, in GDD units.
calculate_gdd(tmax, tmin) ==
    IF tmax = NaN \/ tmin = NaN THEN 0
    ELSE (Min2(tmax, tupper) + Max2(tmin, tbase)) - 2 * tbase

\* ------------------------------------------------------ phenophase resolver

get_current_phenophase_interval(cumulative_gdd, sowing_date) ==
    LET sowing_window == determine_sowing_window(sowing_date)
    IN  IF sowing_window = None THEN <<None, None>>
        ELSE LET thresholds == phenophase_thresholds(sowing_window)
                 hit == {i \in 1..10 : /\ cumulative_gdd >= Gdd(thresholds[i][1])
                                       /\ cumulative_gdd <= Gdd(thresholds[i][2])}
             IN  IF hit = {} THEN <<"P0", "Pre-emergence">>
                 ELSE LET i == CHOOSE k \in hit : \A j \in hit : j <= k
                      IN  <<Phenophases[i], phenophase_descriptions[i]>>

\* The scan of sorted(thresholds.items(), key=min_gdd, reverse=True): the first
\* item whose min_gdd is <= cumulative_gdd is the qualifying item of greatest
\* min_gdd, and among equal keys the stable sort keeps the dict's order.
get_current_phenophase(cumulative_gdd, sowing_date) ==
    LET sowing_window == determine_sowing_window(sowing_date)
    IN  IF sowing_window = None THEN <<None, None>>
        ELSE LET thresholds == phenophase_thresholds(sowing_window)
                 hit == {i \in 1..10 : cumulative_gdd >= Gdd(thresholds[i][1])}
             IN  IF hit = {} THEN <<"P0", "Pre-emergence">>
                 ELSE LET i == CHOOSE k \in hit : \A j \in hit :
                                   \/ thresholds[j][1] < thresholds[k][1]
                                   \/ thresholds[j][1] = thresholds[k][1] /\ k <= j
                      IN  <<Phenophases[i], phenophase_descriptions[i]>>

\* -------------------------------------------------------------- rule catalogs
\* A condition is [parameter, range, weight] or, for rainy_days, [parameter,
\* value, weight]; temp_max ranges are in tenths of a degree, weights in tenths.

insect_risks ==
    << [name |-> "Aphids", phenophases |-> {"P1", "P2", "P3"},
        conditions |-> << [parameter |-> "temp_max", range |-> <<250, 350>>, weight |-> 4],
                          [parameter |-> "humidity", range |-> <<60, 80>>, weight |-> 3],
                          [parameter |-> "sunshine_hours", range |-> <<4, 8>>, weight |-> 3] >>,
        threshold |-> 40],
       [name |-> "Whitefly", phenophases |-> {"P2", "P3", "P4"},
        conditions |-> << [parameter |-> "temp_max", range |-> <<280, 380>>, weight |-> 5],
                          [parameter |-> "humidity", range |-> <<50, 70>>, weight |-> 3],
                          [parameter |-> "rain_probability", range |-> <<0, 30>>, weight |-> 2] >>,
        threshold |-> 40] >>

disease_risks ==
    << [name |-> "Bacterial Blight", phenophases |-> {"P2", "P3", "P4", "P5"},
        conditions |-> << [parameter |-> "temp_max", range |-> <<250, 350>>, weight |-> 3],
                          [parameter |-> "humidity", range |-> <<70, 90>>, weight |-> 4],
                          [parameter |-> "rain_probability", range |-> <<50, 100>>, weight |-> 3] >>,
        threshold |-> 40],
       [name |-> "Fusarium Wilt", phenophases |-> {"P3", "P4", "P5", "P6"},
        conditions |-> << [parameter |-> "temp_max", range |-> <<250, 320>>, weight |-> 4],
                          [parameter |-> "humidity", range |-> <<60, 85>>, weight |-> 3],
                          [parameter |-> "rainy_days", value |-> 5, weight |-> 3] >>,
        threshold |-> 40] >>

\* pbw_weather_conditions, in the dict's order.
pbw_weather_conditions ==
    << [parameter |-> "temp_max", range |-> <<300, 400>>, weight |-> 5],
       [parameter |-> "humidity", range |-> <<60, 80>>, weight |-> 3],
       [parameter |-> "rain_probability", range |-> <<0, 30>>, weight |-> 2] >>

RECURSIVE SumWeights(_, _)
\* sum(cond["weight"] for cond in conditions[1..n])
SumWeights(conditions, n) ==
    IF n = 0 THEN 0 ELSE SumWeights(conditions, n - 1) + conditions[n].weight

InRange(cond, v) == cond.range[1] <= v /\ v <= cond.range[2]

\* ------------------------------------------------------------- weather rows
\* A row of the frame fetch_weather_data returns: date, tmax, tmin,
\* precipitation, sunshine_hours, humidity (cloud, latitude and longitude are
\* never read). The query selects no rain_prob column, so a fetched row's
\* rain_prob is NaN; a caller of the evaluators can pass a row that has one.
\* A weather_row argument is a frame slice: <<>> or <<row>>.

\* The value read from a weather_row column: None (NaN here) when the column
\* is absent or null.
Column(weather_row, c) == weather_row[1][c]

\* ------------------------------------------------------------ risk scoring

\* What one condition adds to a rule's score in evaluate_insect_risks.
InsectCondScore(cond, tmax, humidity, sunshine_hours, rain_prob) ==
    IF cond.parameter = "temp_max" /\ tmax # NaN
        THEN (IF InRange(cond, tmax) THEN cond.weight ELSE 0)
    ELSE IF cond.parameter = "humidity" /\ humidity # NaN
        THEN (IF InRange(cond, humidity) THEN cond.weight ELSE 0)
    ELSE IF cond.parameter = "sunshine_hours" /\ sunshine_hours # NaN
        THEN (IF InRange(cond, sunshine_hours) THEN cond.weight ELSE 0)
    ELSE IF cond.parameter = "rain_probability" /\ rain_prob # NaN
        THEN (IF InRange(cond, rain_prob) THEN cond.weight ELSE 0)
    ELSE 0

RECURSIVE InsectScore(_, _, _)
InsectScore(conditions, n, weather_row) ==
    IF n = 0 THEN 0
    ELSE InsectScore(conditions, n - 1, weather_row)
         + InsectCondScore(conditions[n], Column(weather_row, "tmax"),
                           Column(weather_row, "humidity"),
                           Column(weather_row, "sunshine_hours"),
                           Column(weather_row, "rain_prob"))

\* (score / total_possible_score) * 100 if total_possible_score > 0 else 0
RiskPercentage(score, total_possible_score) ==
    IF total_possible_score > 0 THEN (score * 100) \div total_possible_score ELSE 0

\* The risk percentage evaluate_insect_risks computes for one rule.
insect_risk_percentage(insect, weather_row) ==
    RiskPercentage(InsectScore(insect.conditions, Len(insect.conditions), weather_row),
                   SumWeights(insect.conditions, Len(insect.conditions)))

RECURSIVE InsectAlertsAllPhases(_, _, _)
InsectAlertsAllPhases(n, weather_row, phenophase) ==
    IF n = 0 THEN <<>>
    ELSE LET insect == insect_risks[n]
             before == InsectAlertsAllPhases(n - 1, weather_row, phenophase)
         IN  IF insect_risk_percentage(insect, weather_row) >= insect.threshold
             THEN Append(before, [name |-> insect.name,
                                  risk_percentage |-> insect_risk_percentage(insect, weather_row)])
             ELSE before

RECURSIVE InsectAlerts(_, _, _)
\* The alerts appended by the first n rules of insect_risks.
InsectAlerts(n, weather_row, phenophase) ==
    IF n = 0 THEN <<>>
    ELSE LET insect == insect_risks[n]
             before == InsectAlerts(n - 1, weather_row, phenophase)
         IN  IF phenophase \notin insect.phenophases THEN before
             ELSE IF insect_risk_percentage(insect, weather_row) >= insect.threshold
                  THEN Append(before, [name |-> insect.name,
                                       risk_percentage |-> insect_risk_percentage(insect, weather_row)])
                  ELSE before

evaluate_insect_risks(weather_row, phenophase, date) ==
    IF weather_row = <<>> THEN <<>>
    ELSE InsectAlerts(Len(insect_risks), weather_row, phenophase)

\* The rainy days of every row up to date, whatever its month.
calculate_rainy_days_any_month(weather_data, date) ==
    Cardinality({i \in 1..Len(weather_data) :
                     /\ weather_data[i].date <= date
                     /\ weather_data[i].precipitation # NaN
                     /\ weather_data[i].precipitation > 0})

\* len(month_data[month_data['precipitation'] > 0]) over the rows dated from
\* the first of date's month through date.
calculate_rainy_days(weather_data, date) ==
    LET month_start == MkDate(month(date), 1)
    IN  Cardinality({i \in 1..Len(weather_data) :
                         /\ weather_data[i].date >= month_start
                         /\ weather_data[i].date <= date
                         /\ weather_data[i].precipitation # NaN
                         /\ weather_data[i].precipitation > 0})

\* What one condition adds to a rule's score in evaluate_disease_risks.
DiseaseCondScore(cond, tmax, humidity, rain_prob, rainy_days) ==
    IF cond.parameter = "temp_max" /\ tmax # NaN
        THEN (IF InRange(cond, tmax) THEN cond.weight ELSE 0)
    ELSE IF cond.parameter = "humidity" /\ humidity # NaN
        THEN (IF InRange(cond, humidity) THEN cond.weight ELSE 0)
    ELSE IF cond.parameter = "rain_probability" /\ rain_prob # NaN
        THEN (IF InRange(cond, rain_prob) THEN cond.weight ELSE 0)
    ELSE IF cond.parameter = "rainy_days"
        THEN (IF rainy_days >= cond.value THEN cond.weight ELSE 0)
    ELSE 0

RECURSIVE DiseaseScore(_, _, _, _)
DiseaseScore(conditions, n, weather_row, rainy_days) ==
    IF n = 0 THEN 0
    ELSE DiseaseScore(conditions, n - 1, weather_row, rainy_days)
         + DiseaseCondScore(conditions[n], Column(weather_row, "tmax"),
                            Column(weather_row, "humidity"),
                            Column(weather_row, "rain_prob"), rainy_days)

\* The risk percentage evaluate_disease_risks computes for one rule.
disease_risk_percentage(disease, weather_row, rainy_days) ==
    RiskPercentage(DiseaseScore(disease.conditions, Len(disease.conditions), weather_row, rainy_days),
                   SumWeights(disease.conditions, Len(disease.conditions)))

RECURSIVE DiseaseAlerts(_, _, _, _)
DiseaseAlerts(n, weather_row, phenophase, rainy_days) ==
    IF n = 0 THEN <<>>
    ELSE LET disease == disease_risks[n]
             before == DiseaseAlerts(n - 1, weather_row, phenophase, rainy_days)
             risk == disease_risk_percentage(disease, weather_row, rainy_days)
         IN  IF phenophase \notin disease.phenophases THEN before
             ELSE IF risk >= disease.threshold
                  THEN Append(before, [name |-> disease.name, risk_percentage |-> risk])
                  ELSE before

\* weather_data[weather_data['date'].dt.date == date]; dates are unique.
RowsOn(weather_data, date) ==
    SelectSeq(weather_data, LAMBDA r : r.date = date)

evaluate_disease_risks(weather_data, phenophase, date) ==
    LET weather_row == RowsOn(weather_data, date)
    IN  IF weather_row = <<>> THEN <<>>
        ELSE DiseaseAlerts(Len(disease_risks), weather_row, phenophase,
                           calculate_rainy_days(weather_data, date))

\* What one entry of pbw_weather_conditions adds to the score.
PbwCondScore(cond, tmax, humidity, rain_prob) ==
    IF cond.parameter = "temp_max" /\ tmax # NaN
        THEN (IF InRange(cond, tmax) THEN cond.weight ELSE 0)
    ELSE IF cond.parameter = "humidity" /\ humidity # NaN
        THEN (IF InRange(cond, humidity) THEN cond.weight ELSE 0)
    ELSE IF cond.parameter = "rain_probability" /\ rain_prob # NaN
        THEN (IF InRange(cond, rain_prob) THEN cond.weight ELSE 0)
    ELSE 0

RECURSIVE PbwScore(_, _)
PbwScore(n, weather_row) ==
    IF n = 0 THEN 0
    ELSE PbwScore(n - 1, weather_row)
         + PbwCondScore(pbw_weather_conditions[n], Column(weather_row, "tmax"),
                        Column(weather_row, "humidity"), Column(weather_row, "rain_prob"))

\* The weather-based risk percentage of evaluate_pbw_risk.
pbw_risk_percentage(weather_row) ==
    RiskPercentage(
        IF weather_row = <<>> THEN 0 ELSE PbwScore(Len(pbw_weather_conditions), weather_row),
        SumWeights(pbw_weather_conditions, Len(pbw_weather_conditions)))

\* Escalation by one level only: Low becomes Moderate.
adjusted_severity_one_step(risk_percentage, severity) ==
    IF risk_percentage >= 60 /\ severity # "High"
    THEN (IF severity = "Low" THEN "Moderate" ELSE "High")
    ELSE severity

\* adjusted_severity = "High" if risk_percentage >= 60 and severity != "High"
\* else severity
adjusted_severity(risk_percentage, severity) ==
    IF risk_percentage >= 60 /\ severity # "High" THEN "High" ELSE severity

\* The active list with P9 added.
PbwActivePhenophasesThroughP9 == {"P4", "P5", "P6", "P7", "P8", "P9"}

\* The phenophases evaluate_pbw_risk is active in.
PbwActivePhenophases == {"P4", "P5", "P6", "P7", "P8"}

\* stage = "Larvae" if pbw_gdd < 200 else "Pupae" if pbw_gdd < 400 else "Adult"
pbw_stage(pbw_gdd) ==
    IF pbw_gdd < Gdd(200) THEN "Larvae" ELSE IF pbw_gdd < Gdd(400) THEN "Pupae" ELSE "Adult"

\* The generation number without its cap of 3.
pbw_generation_uncapped(pbw_gdd) == (pbw_gdd \div Gdd(600)) + 1

\* generation = min(int(pbw_gdd // 600) + 1, 3)
pbw_generation(pbw_gdd) == Min2((pbw_gdd \div Gdd(600)) + 1, 3)

evaluate_pbw_risk(pbw_gdd, phenophase, weather_row, date) ==
    IF phenophase \notin PbwActivePhenophases THEN
        [stage |-> "Not active", generation |-> <<"N/A">>, adjusted_severity |-> "None",
         risk_percentage |-> 0, recommendations |-> <<"No action required.">>]
    ELSE
        LET stage == pbw_stage(pbw_gdd)
            generation == pbw_generation(pbw_gdd)
            severity == IF pbw_gdd < Gdd(300) THEN "Low"
                        ELSE IF pbw_gdd < Gdd(600) THEN "Moderate" ELSE "High"
            risk_percentage == pbw_risk_percentage(weather_row)
        IN  [stage |-> stage,
             generation |-> <<"Generation", generation>>,
             adjusted_severity |-> adjusted_severity(risk_percentage, severity),
             risk_percentage |-> risk_percentage,
             recommendations |-> IF risk_percentage >= 40
                                 THEN <<"Monitor fields regularly.",
                                        "Use pheromone traps for PBW.",
                                        "Apply insecticides if larvae are detected.">>
                                 ELSE <<"Continue regular monitoring.">>]

\* -------------------------------------------------------- historical scans

\* The rows the query returns: WHERE DATE("date") BETWEEN start AND end ...
\* ORDER BY date (the table is kept here in date order). A failed query gives
\* the empty frame, which an empty table gives too.
fetch_weather_data(table, start_date, finish_date) ==
    SelectSeq(table, LAMBDA r : start_date <= r.date /\ r.date <= finish_date)

\* The columns of the frame the query returns.
QueryColumns ==
    {"date", "latitude", "longitude", "tmax", "tmin", "precipitation", "sunshine_hours",
     "humidity", "cloud"}

\* The four per-name maps (and the history of counted days) as one value.
Tabs(days, first, maxr, maxdate, log) ==
    [days |-> days, first |-> first, max |-> maxr, maxdate |-> maxdate, log |-> log]

RecordRiskFirstMoves(t, name, risk, date) ==
    LET t1 == IF name \notin DOMAIN t.days
              THEN [t EXCEPT !.days = (name :> 0) @@ @, !.first = (name :> date) @@ @,
                             !.max = (name :> risk) @@ @, !.maxdate = (name :> date) @@ @]
              ELSE [t EXCEPT !.first[name] = date]
        t2 == [t1 EXCEPT !.days[name] = @ + 1, !.log = @ \cup {<<name, date, risk>>}]
    IN  IF risk > t2.max[name]
        THEN [t2 EXCEPT !.max[name] = risk, !.maxdate[name] = date]
        ELSE t2

RecordRiskTiesLast(t, name, risk, date) ==
    LET t1 == IF name \notin DOMAIN t.days
              THEN [t EXCEPT !.days = (name :> 0) @@ @, !.first = (name :> date) @@ @,
                             !.max = (name :> risk) @@ @, !.maxdate = (name :> date) @@ @]
              ELSE t
        t2 == [t1 EXCEPT !.days[name] = @ + 1, !.log = @ \cup {<<name, date, risk>>}]
    IN  IF risk >= t2.max[name]
        THEN [t2 EXCEPT !.max[name] = risk, !.maxdate[name] = date]
        ELSE t2

\* The body of "if risk_percentage >= risk_threshold:" for one alert: create
\* the name's entries on first sight, count the day, and move the maximum
\* when the risk is strictly greater. The same block serves the insect alerts,
\* Pink Boll Worm and the disease alerts.
RecordRisk(t, name, risk, date) ==
    LET t1 == IF name \notin DOMAIN t.days
              THEN [t EXCEPT !.days = (name :> 0) @@ @, !.first = (name :> date) @@ @,
                             !.max = (name :> risk) @@ @, !.maxdate = (name :> date) @@ @]
              ELSE t
        t2 == [t1 EXCEPT !.days[name] = @ + 1, !.log = @ \cup {<<name, date, risk>>}]
    IN  IF risk > t2.max[name]
        THEN [t2 EXCEPT !.max[name] = risk, !.maxdate[name] = date]
        ELSE t2

RECURSIVE RecordAlerts(_, _, _, _, _)
\* for alert in alerts[1..n]: if alert['risk_percentage'] >= risk_threshold: ...
RecordAlerts(t, alerts, n, threshold, date) ==
    IF n = 0 THEN t
    ELSE LET before == RecordAlerts(t, alerts, n - 1, threshold, date)
         IN  IF alerts[n].risk_percentage >= threshold
             THEN RecordRisk(before, alerts[n].name, alerts[n].risk_percentage, date)
             ELSE before

RecordPbwSecondGeneration(t, phenophase, weather_row, date) ==
    IF hist_p4_start_date # NaN /\ date >= hist_p4_start_date
    THEN LET pbw_risk == evaluate_pbw_risk(hist_pbw_gdd, phenophase, weather_row, date)
         IN  IF pbw_risk.risk_percentage >= hist_risk_threshold
                /\ pbw_risk.generation # <<"Generation", 1>>
             THEN RecordRisk(t, "Pink Boll Worm", pbw_risk.risk_percentage, date)
             ELSE t
    ELSE t

RecordPbwAnyDay(t, phenophase, weather_row, date) ==
    LET pbw_risk == evaluate_pbw_risk(hist_pbw_gdd, phenophase, weather_row, date)
    IN  IF pbw_risk.risk_percentage >= hist_risk_threshold
        THEN RecordRisk(t, "Pink Boll Worm", pbw_risk.risk_percentage, date)
        ELSE t

\* The Pink Boll Worm part of one day of the insect scan.
RecordPbw(t, phenophase, weather_row, date) ==
    IF hist_p4_start_date # NaN /\ date >= hist_p4_start_date
    THEN LET pbw_risk == evaluate_pbw_risk(hist_pbw_gdd, phenophase, weather_row, date)
         IN  IF pbw_risk.risk_percentage >= hist_risk_threshold
             THEN RecordRisk(t, "Pink Boll Worm", pbw_risk.risk_percentage, date)
             ELSE t
    ELSE t

\* What a scanner returns: the "No historical ... risks" sentence, or the
\* summary with one entry per name.
Summary(what) ==
    IF DOMAIN risk_days = {}
    THEN [text |-> "No historical risks detected", of |-> what, risk_threshold |-> hist_risk_threshold]
    ELSE [text |-> "Historical Risk Summary", of |-> what, risk_threshold |-> hist_risk_threshold,
          entries |-> [n \in DOMAIN risk_days |->
                          [first_conducive_date |-> first_dates[n],
                           conducive_days |-> risk_days[n],
                           highest_risk |-> max_risks[n],
                           highest_risk_date |-> max_risk_dates[n]]]]

SetTabs(t) ==
    /\ risk_days' = t.days
    /\ first_dates' = t.first
    /\ max_risks' = t.max
    /\ max_risk_dates' = t.maxdate
    /\ counted' = t.log

\* ------------------------------------------------------------- update_gdd

\* The names bound in the module's globals when a function of it runs: what the
\* import statements at the top of the file bind, and the module's own
\* functions and tables. Nothing binds timedelta (valid_date imports datetime
\* and date into its own scope only).
ModuleGlobals ==
    {"os", "pd", "logging", "argparse", "quote_plus", "load_dotenv", "create_engine",
     "SQLAlchemyError", "Engine", "make_url",
     "get_db_url", "mask_db_url", "setup_database", "phenophase_thresholds",
     "phenophase_descriptions", "insect_risks", "disease_risks", "pbw_weather_conditions",
     "fetch_weather_data", "calculate_gdd", "calculate_rainy_days",
     "calculate_monthly_rainfall", "predict_harvest_dates", "evaluate_pbw_risk",
     "evaluate_insect_risks", "evaluate_disease_risks", "determine_sowing_window",
     "get_current_phenophase", "update_gdd", "calculate_historical_insect_risks",
     "calculate_historical_disease_risks", "process_location", "get_user_inputs", "main"}

\* Evaluating a global name that is not bound raises NameError.
NameError(name) == name \notin ModuleGlobals

\* {p: None for p in phenophase_descriptions}
NoPhenophaseDates == [i \in 1..10 |-> NaN]

\* update_gdd's return statement; avg_temp is tmax + tmin in tenths, that is
\* the mean in twentieths of a degree.
UpdateGddResult(cumulative_gdd, p4_start_date, pbw_gdd, total_rainfall, avg_temp, weather_data, phenophase_dates) ==
    [cumulative_gdd |-> cumulative_gdd, p4_start_date |-> p4_start_date,
     pbw_gdd |-> pbw_gdd, total_rainfall |-> total_rainfall, avg_temp |-> avg_temp,
     weather_data |-> weather_data, phenophase_dates |-> phenophase_dates,
     columns |-> QueryColumns]

UpdateGddFailedUnset ==
    [UpdateGddResult(NaN, NaN, NaN, NaN, NaN, <<>>, NoPhenophaseDates) EXCEPT !.columns = {}]

\* What update_gdd's except clause returns; its frame is pd.DataFrame(), which
\* has no rows and no columns.
UpdateGddFailed ==
    [UpdateGddResult(0, NaN, 0, 0, NaN, <<>>, NoPhenophaseDates) EXCEPT !.columns = {}]

\* a + b on floats, NaN if either is NaN.
AddNaN(a, b) == IF a = NaN \/ b = NaN THEN NaN ELSE a + b

RECURSIVE UpdateGddWalk(_, _, _, _, _, _)
\* The locals of update_gdd after its for loop has taken the first n rows;
\* stopped is set once the loop has hit its break.
UpdateGddWalk(weather_data, n, sowing_date, question_date, p4_gdd_threshold, sowing_window) ==
    IF n = 0
    THEN [cumulative_gdd |-> 0, pbw_gdd |-> 0, p4_start_date |-> NaN, total_rainfall |-> 0,
          phenophase_dates |-> NoPhenophaseDates, stopped |-> FALSE]
    ELSE LET w == UpdateGddWalk(weather_data, n - 1, sowing_date, question_date,
                                p4_gdd_threshold, sowing_window)
             row == weather_data[n]
             current_date == row.date
             daily_gdd == calculate_gdd(row.tmax, row.tmin)
             cumulative_gdd == w.cumulative_gdd + daily_gdd
             p4_start_date == IF w.p4_start_date = NaN /\ cumulative_gdd >= p4_gdd_threshold
                              THEN current_date ELSE w.p4_start_date
         IN  IF w.stopped \/ current_date < sowing_date THEN w
             ELSE IF current_date > question_date THEN [w EXCEPT !.stopped = TRUE]
             ELSE [cumulative_gdd |-> cumulative_gdd,
                   total_rainfall |-> AddNaN(w.total_rainfall, row.precipitation),
                   phenophase_dates |->
                       [i \in 1..10 |->
                           IF w.phenophase_dates[i] = NaN
                              /\ cumulative_gdd >= min_gdd(sowing_window, i)
                           THEN current_date ELSE w.phenophase_dates[i]],
                   p4_start_date |-> p4_start_date,
                   pbw_gdd |-> IF p4_start_date # NaN /\ current_date >= p4_start_date
                               THEN w.pbw_gdd + daily_gdd ELSE w.pbw_gdd,
                   stopped |-> FALSE]

\* update_gdd(sowing_date, question_date, p4_gdd_threshold, grid_id,
\* sowing_window), with the grid's table in place of grid_id. The first
\* statement of the try block evaluates timedelta, which raises NameError, and
\* the except clause returns; so does the IndexError of .iloc[0] when the
\* frame has no row for question_date.
update_gdd(sowing_date, question_date, p4_gdd_threshold, table, sowing_window) ==
    IF NameError("timedelta") THEN UpdateGddFailed
    ELSE LET weather_data == fetch_weather_data(table, sowing_date, question_date + 90)
             w == UpdateGddWalk(weather_data, Len(weather_data), sowing_date, question_date,
                                p4_gdd_threshold, sowing_window)
             on_question_date == RowsOn(weather_data, question_date)
         IN  IF weather_data = <<>>
             THEN UpdateGddResult(0, NaN, 0, 0, NaN, weather_data, NoPhenophaseDates)
             ELSE IF on_question_date = <<>> THEN UpdateGddFailed
             ELSE UpdateGddResult(w.cumulative_gdd, w.p4_start_date, w.pbw_gdd,
                                  w.total_rainfall,
                                  AddNaN(on_question_date[1].tmax, on_question_date[1].tmin),
                                  weather_data, w.phenophase_dates)

\* ------------------------------------------------- predict_harvest_dates

\* assumed_gdd = max(0, 25.0 - 15.6), degree-days a day, in twentieths.
assumed_gdd == 188

\* The harvest-ready test made strict: remaining_gdd < 0.
predict_harvest_dates_strict(cumulative_gdd, sowing_window, question_date) ==
    IF min_gdd(sowing_window, 10) - cumulative_gdd < 0
    THEN [text |-> "Crop is harvest-ready (P10 reached)."]
    ELSE [text |-> "Harvest prediction unavailable."]

\* predict_harvest_dates(cumulative_gdd, sowing_window, question_date). Past
\* the harvest-ready return the function evaluates timedelta, which raises
\* NameError, and its except clause returns.
predict_harvest_dates(cumulative_gdd, sowing_window, question_date) ==
    LET p10_min_gdd == min_gdd(sowing_window, 10)
        remaining_gdd == p10_min_gdd - cumulative_gdd
        days_to_harvest_25 == remaining_gdd \div assumed_gdd
        earliest_harvest_25 == question_date + days_to_harvest_25
        latest_harvest_25 == earliest_harvest_25 + 7
    IN  IF remaining_gdd <= 0 THEN [text |-> "Crop is harvest-ready (P10 reached)."]
        ELSE IF NameError("timedelta") THEN [text |-> "Harvest prediction unavailable."]
        ELSE [text |-> "Harvest Prediction", earliest |-> earliest_harvest_25,
              latest |-> latest_harvest_25]

\* ------------------------------------------------------------------ inputs
\* The bounded sets the arguments of the calls and the scans are drawn from.

MaxTempC == 45

\* Temperatures offered to calculate_gdd: whole degrees 0..MaxTempC, the
\* tenths next to tbase and tupper, and a missing value.
Temps == {NaN} \cup {10 * t : t \in 0..MaxTempC} \cup {tbase - 1, tbase, tbase + 1, tupper - 1, tupper, tupper + 1}

\* Sowing dates offered to the phenophase resolver: every day from May 15 to
\* July 20, and two days far outside the windows.
SowingDates == (MkDate(5, 15)..MkDate(7, 20)) \cup {MkDate(4, 1), MkDate(8, 1)}

MaxGddProbe == 1600

\* Cumulative GDD values offered for a sowing date: one unit below, at and one
\* unit above every bound of every phenophase of the date's catalog row (the
\* July 15 row for a date outside the windows), a negative sum, zero and a sum
\* above every bound.
GddProbes(sowing_date) ==
    LET w == IF determine_sowing_window(sowing_date) = None THEN "July 15"
             ELSE determine_sowing_window(sowing_date)
        row == phenophase_thresholds(w)
    IN  {Gdd(row[i][k]) + e : i \in 1..10, k \in 1..2, e \in {-1, 0, 1}}
            \cup {-56, 0, Gdd(MaxGddProbe)}

\* Values offered for the columns the rules read.
RiskTmax == {NaN, 240, 290, 330, 390}

RiskHumidity == {NaN, 40, 65, 75}

RiskSunshine == {NaN, 2, 6}

RiskRainProb == {NaN, 20, 60}

PhenophaseCodes == {"P0"} \cup {Phenophases[i] : i \in 1..10}

Row(date, tmax, tmin, precipitation, sunshine_hours, humidity, rain_prob) ==
    [date |-> date, tmax |-> tmax, tmin |-> tmin, precipitation |-> precipitation,
     sunshine_hours |-> sunshine_hours, humidity |-> humidity, rain_prob |-> rain_prob]

\* The weather_row arguments offered to the insect and PBW evaluators.
RiskRows ==
    {<<>>} \cup
    {<<Row(MkDate(7, 20), tmax, 200, 0, sunshine_hours, humidity, rain_prob)>> :
        tmax \in RiskTmax, sunshine_hours \in RiskSunshine,
        humidity \in RiskHumidity, rain_prob \in RiskRainProb}

MaxSeries == 6

\* The weather_data arguments offered to evaluate_disease_risks: n <= MaxSeries
\* rows on consecutive dates ending on last; the rows before the last are dry
\* or wet days, the last row's columns are drawn from the sets above.
DiseaseSeries(last) ==
    UNION {
        {[i \in 1..n |->
             IF i < n THEN Row(last - (n - i), 300, 200, 5 * wet[i], 6, 50, NaN)
             ELSE Row(last, tmax, 200, 5 * wet[i], 6, humidity, rain_prob)] :
            wet \in [1..n -> {0, 1}], tmax \in {NaN, 290, 390},
            humidity \in {NaN, 40, 75}, rain_prob \in {NaN, 60}} :
        n \in 1..MaxSeries}

\* The PBW-clock sums offered to evaluate_pbw_risk, in degree-days.
PbwGddProbes == {-3, 0, 199, 200, 299, 300, 399, 400, 599, 600, 1199, 1200, 1900}


\* A heat-wave day: 16.4 degree-days, and weather no insect or disease rule
\* scores (Pink Boll Worm scores its temp_max condition, 50%).
HeatRow(date) == Row(date, 400, 300, 0, 10, 40, NaN)

\* The days that follow the heat wave, by kind.
FreeRow(k, date) ==
    CASE k = 1 -> Row(date, 300, 200, 5, 6, 70, NaN)
      [] k = 2 -> Row(date, 300, 200, 0, 10, 40, NaN)
      [] k = 3 -> Row(date, 200, 100, 5, 2, 75, NaN)
      [] k = 4 -> Row(date, 100, 50, 0, NaN, NaN, NaN)
      [] k = 5 -> Row(date, NaN, 200, 5, 6, 70, NaN)

FreeRowKinds == 1..5

MaxTail == 2

\* Lengths of the heat wave: none, and the first day the July 15 row's P1, P2,
\* P3 and P4 bounds are met at 16.4 degree-days a day.
HeatLengths == {0, 3, 12, 15, 21}

Tails == UNION {[1..n -> FreeRowKinds] : n \in 0..MaxTail}

\* The table's rows from sowing day on: h heat-wave days, then the tail.
Series(sow, h, tail) ==
    [i \in 1..(h + Len(tail)) |->
        IF i <= h THEN HeatRow(sow + i - 1) ELSE FreeRow(tail[i - h], sow + i - 1)]

\* Sixty days from June 1 at tmax 30.0 and tmin 20.0.
SixtyDays == [i \in 1..60 |-> Row(MkDate(6, 1) + i - 1, 300, 200, 0, 6, 50, NaN)]

RiskThresholds == {30, 40, 70}

\* The <<p4_start_date, pbw_gdd>> arguments offered to the insect scanner: no
\* clock, a clock started the day the heat wave of 21 days meets the July 15
\* row's P4 bound (with two PBW sums), and one started the day after.
PbwClocks(k, sow) ==
    IF k = "insect"
    THEN {<<NaN, 0>>, <<sow + 20, 0>>, <<sow + 20, Gdd(700)>>, <<sow + 21, 0>>}
    ELSE {<<NaN, 0>>}

\* ------------------------------------------------------------ direct calls
\* Spec: one of the module's functions called directly, with arguments drawn
\* from bounded sets; call holds the call and what it returned. The functions
\* keep no state between calls, so a behaviour makes one call.

\* In Spec no scanner runs.
ScanIdle ==
    /\ kind = "none" /\ db = <<>> /\ hist_sowing_date = NaN /\ hist_end_date = NaN
    /\ hist_p4_start_date = NaN /\ hist_pbw_gdd = 0 /\ hist_risk_threshold = 40
    /\ pc = "done" /\ hist_weather_data = <<>> /\ idx = 0 /\ hist_cumulative_gdd = 0
    /\ risk_days = <<>> /\ first_dates = <<>> /\ max_risks = <<>>
    /\ max_risk_dates = <<>> /\ counted = {} /\ result = None

Init == call = [op |-> "none"] /\ ScanIdle

CallDetermineSowingWindow ==
    /\ call.op = "none"
    /\ UNCHANGED scan_vars
    /\ \E d \in Dates :
        call' = [op |-> "determine_sowing_window", sowing_date |-> d,
                 result |-> determine_sowing_window(d)]

CallCalculateGdd ==
    /\ call.op = "none"
    /\ UNCHANGED scan_vars
    /\ \E tmax \in Temps, tmin \in Temps :
        /\ (tmax # NaN /\ tmin # NaN) => tmin <= tmax
        /\ call' = [op |-> "calculate_gdd", tmax |-> tmax, tmin |-> tmin,
                 result |-> calculate_gdd(tmax, tmin)]

CallGetCurrentPhenophase ==
    /\ call.op = "none"
    /\ UNCHANGED scan_vars
    /\ \E d \in SowingDates :
        \E g \in GddProbes(d) :
            call' = [op |-> "get_current_phenophase", cumulative_gdd |-> g,
                     sowing_date |-> d, result |-> get_current_phenophase(g, d)]

CallEvaluateInsectRisks ==
    /\ call.op = "none"
    /\ UNCHANGED scan_vars
    /\ \E weather_row \in RiskRows, phenophase \in PhenophaseCodes :
           call' = [op |-> "evaluate_insect_risks", weather_row |-> weather_row,
                    phenophase |-> phenophase,
                    result |-> evaluate_insect_risks(weather_row, phenophase, MkDate(7, 20))]

CallEvaluateDiseaseRisks ==
    /\ call.op = "none"
    /\ UNCHANGED scan_vars
    /\ \E last \in {MkDate(7, 3), MkDate(7, 6)} :
         \E weather_data \in DiseaseSeries(last), date \in {last, last + 1},
            phenophase \in {"P1", "P2", "P3", "P6", "P7"} :
           call' = [op |-> "evaluate_disease_risks", weather_data |-> weather_data,
                    phenophase |-> phenophase, date |-> date,
                    result |-> evaluate_disease_risks(weather_data, phenophase, date)]

CallEvaluatePbwRisk ==
    /\ call.op = "none"
    /\ UNCHANGED scan_vars
    /\ \E g \in PbwGddProbes, weather_row \in RiskRows, phenophase \in PhenophaseCodes :
           call' = [op |-> "evaluate_pbw_risk", pbw_gdd |-> Gdd(g),
                    phenophase |-> phenophase, weather_row |-> weather_row,
                    result |-> evaluate_pbw_risk(Gdd(g), phenophase, weather_row, MkDate(7, 20))]

\* update_gdd as process_location calls it: p4_gdd_threshold is the P4 lower
\* bound of the sowing date's catalog row.
CallUpdateGdd ==
    /\ call.op = "none"
    /\ UNCHANGED scan_vars
    /\ \E h \in {0, 3, 21}, tail \in Tails :
         \E question_date \in MkDate(7, 15)..(MkDate(7, 15) + h + Len(tail)) :
           LET sowing_date == MkDate(7, 15)
               sowing_window == determine_sowing_window(sowing_date)
               table == Series(sowing_date, h, tail)
           IN  call' = [op |-> "update_gdd", sowing_date |-> sowing_date,
                        question_date |-> question_date, table |-> table,
                        sowing_window |-> sowing_window,
                        result |-> update_gdd(sowing_date, question_date,
                                              min_gdd(sowing_window, 4), table,
                                              sowing_window)]

\* predict_harvest_dates called for a date of each window, with the cumulative
\* GDD around the bounds of the window's row.
CallPredictHarvestDates ==
    /\ call.op = "none"
    /\ UNCHANGED scan_vars
    /\ \E d \in {e \in Dates : determine_sowing_window(e) # None} :
        \E g \in GddProbes(d), question_date \in {d, d + 100} :
            call' = [op |-> "predict_harvest_dates", cumulative_gdd |-> g,
                     sowing_window |-> determine_sowing_window(d),
                     question_date |-> question_date,
                     result |-> predict_harvest_dates(g, determine_sowing_window(d),
                                                      question_date)]

Next ==
    \/ CallUpdateGdd
    \/ CallPredictHarvestDates
    \/ CallDetermineSowingWindow
    \/ CallCalculateGdd
    \/ CallGetCurrentPhenophase
    \/ CallEvaluateInsectRisks
    \/ CallEvaluateDiseaseRisks
    \/ CallEvaluatePbwRisk

Spec == Init /\ [][Next]_vars

\* ------------------------------------------------------ the scanners' runs
\* SpecScan: one run of calculate_historical_insect_risks or
\* calculate_historical_disease_risks, a loop pass at a time.

ScanArgs == <<kind, db, hist_sowing_date, hist_end_date, hist_p4_start_date, hist_pbw_gdd, hist_risk_threshold>>

\* calculate_historical_insect_risks / calculate_historical_disease_risks up to
\* the for loop: fetch, and return at once on an empty frame.
ScanFetch ==
    /\ pc = "fetch"
    /\ hist_weather_data' = fetch_weather_data(db, hist_sowing_date, hist_end_date)
    /\ IF hist_weather_data' = <<>>
       THEN /\ pc' = "done"
            /\ result' = [text |-> "No historical risks detected", of |-> kind,
                          risk_threshold |-> hist_risk_threshold]
       ELSE /\ pc' = "loop"
            /\ result' = result
    /\ UNCHANGED <<call, ScanArgs, idx, hist_cumulative_gdd, risk_days, first_dates,
                   max_risks, max_risk_dates, counted>>

\* One pass of the insect scanner's for loop.
InsectScanDay ==
    /\ kind = "insect" /\ pc = "loop" /\ idx < Len(hist_weather_data)
    /\ LET row == hist_weather_data[idx + 1]
           current_date == row.date
       IN  IF current_date > hist_end_date
           THEN /\ idx' = Len(hist_weather_data)
                /\ UNCHANGED <<hist_cumulative_gdd, risk_days, first_dates, max_risks,
                               max_risk_dates, counted>>
           ELSE LET gdd == hist_cumulative_gdd + calculate_gdd(row.tmax, row.tmin)
                    phenophase == get_current_phenophase(gdd, hist_sowing_date)[1]
                    weather_row == RowsOn(hist_weather_data, current_date)
                    t0 == Tabs(risk_days, first_dates, max_risks, max_risk_dates, counted)
                    alerts == evaluate_insect_risks(weather_row, phenophase, current_date)
                    t1 == RecordAlerts(t0, alerts, Len(alerts), hist_risk_threshold, current_date)
                IN  /\ idx' = idx + 1
                    /\ hist_cumulative_gdd' = gdd
                    /\ IF phenophase # None
                       THEN SetTabs(RecordPbw(t1, phenophase, weather_row, current_date))
                       ELSE SetTabs(t0)
    /\ UNCHANGED <<call, ScanArgs, pc, hist_weather_data, result>>

\* One pass of the disease scanner's for loop.
DiseaseScanDay ==
    /\ kind = "disease" /\ pc = "loop" /\ idx < Len(hist_weather_data)
    /\ LET row == hist_weather_data[idx + 1]
           current_date == row.date
       IN  IF current_date > hist_end_date
           THEN /\ idx' = Len(hist_weather_data)
                /\ UNCHANGED <<hist_cumulative_gdd, risk_days, first_dates, max_risks,
                               max_risk_dates, counted>>
           ELSE LET gdd == hist_cumulative_gdd + calculate_gdd(row.tmax, row.tmin)
                    phenophase == get_current_phenophase(gdd, hist_sowing_date)[1]
                    t0 == Tabs(risk_days, first_dates, max_risks, max_risk_dates, counted)
                    alerts == evaluate_disease_risks(hist_weather_data, phenophase, current_date)
                IN  /\ idx' = idx + 1
                    /\ hist_cumulative_gdd' = gdd
                    /\ IF phenophase # None
                       THEN SetTabs(RecordAlerts(t0, alerts, Len(alerts), hist_risk_threshold,
                                                 current_date))
                       ELSE SetTabs(t0)
    /\ UNCHANGED <<call, ScanArgs, pc, hist_weather_data, result>>

\* After the loop: "if not insect_risk_days: return No historical ..." or the
\* summary lines.
ScanReturn ==
    /\ pc = "loop" /\ idx = Len(hist_weather_data)
    /\ pc' = "done"
    /\ result' = Summary(kind)
    /\ UNCHANGED <<call, ScanArgs, hist_weather_data, idx, hist_cumulative_gdd, risk_days,
                   first_dates, max_risks, max_risk_dates, counted>>

InitScan ==
    /\ call = [op |-> "none"]
    /\ kind \in {"insect", "disease"}
    /\ hist_risk_threshold \in RiskThresholds
    /\ \/ \E sow \in {MkDate(7, 15), MkDate(8, 1)}, h \in HeatLengths, tail \in Tails :
              /\ sow = MkDate(8, 1) => h = 0
              /\ hist_sowing_date = sow
              /\ db = Series(sow, h, tail)
              /\ hist_end_date = sow + Max2(h + Len(tail), 1) - 1
       \/ /\ hist_sowing_date = MkDate(6, 1)
          /\ db = SixtyDays
          /\ hist_end_date = MkDate(6, 1) + 59
    /\ \E clock \in PbwClocks(kind, hist_sowing_date) :
           /\ hist_p4_start_date = clock[1]
           /\ hist_pbw_gdd = clock[2]
    /\ pc = "fetch" /\ hist_weather_data = <<>> /\ idx = 0 /\ hist_cumulative_gdd = 0
    /\ risk_days = <<>> /\ first_dates = <<>> /\ max_risks = <<>>
    /\ max_risk_dates = <<>> /\ counted = {} /\ result = None

NextScan ==
    \/ ScanFetch
    \/ InsectScanDay
    \/ DiseaseScanDay
    \/ ScanReturn

SpecScan == InitScan /\ [][NextScan]_vars

\* ------------------------------------------------------- process_location
\* SpecLoc: one run of process_location. call holds its arguments and locals;
\* the scanners it calls run as in SpecScan and hand their result back.

\* An outcome of a block of statements: a value, or an exception raised.
Returns(v) == [raised |-> FALSE, value |-> v]

Raises(e) == [raised |-> TRUE, e |-> e]

\* The same without the try statement: an exception leaves the function.
LocCatchNothing(outcome) == outcome

\* process_location's try ... except Exception as e: return f"Error
\* processing grid_id={grid_id}: {e}".
LocCatch(outcome) ==
    IF outcome.raised
    THEN Returns([text |-> "Error processing grid_id", e |-> outcome.e])
    ELSE outcome

\* Twice remaining_gdd = median_gdd - cumulative_gdd of phenophase number i.
TwiceRemaining(g, sowing_window, i) ==
    (Gdd(phenophase_thresholds(sowing_window)[i][1])
     + Gdd(phenophase_thresholds(sowing_window)[i][2])) - 2 * g.cumulative_gdd

\* The phenophases the expected-dates loop gives a date: not yet reached, and
\* the median bound above the cumulative GDD.
Expected(g, sowing_window) ==
    {i \in 1..10 : g.phenophase_dates[i] = NaN /\ TwiceRemaining(g, sowing_window, i) > 0}

\* The loop evaluates timedelta for each of them.
ExpectedDatesRaise(g, sowing_window) ==
    Expected(g, sowing_window) # {} /\ NameError("timedelta")

\* days_to_reach = int(remaining_gdd / assumed_gdd) + 1
DaysToReach(g, sowing_window, i) ==
    (TwiceRemaining(g, sowing_window, i) \div (2 * assumed_gdd)) + 1

\* The statements from the phenophase start dates to the final join: the
\* report, or the exception they raise.
LocReport(c, g, historical_disease_risks) ==
    IF ExpectedDatesRaise(g, c.sowing_window)
    THEN Raises("NameError: name 'timedelta' is not defined")
    ELSE Returns(
        [text |-> "Analysis",
         phenophase |-> c.phenophase,
         cumulative_gdd |-> g.cumulative_gdd,
         total_rainfall |-> g.total_rainfall,
         avg_temp |-> IF g.avg_temp # NaN /\ g.avg_temp # 0 THEN g.avg_temp ELSE "N/A",
         pbw_risk |-> c.pbw_risk,
         insect_alerts |-> c.insect_alerts,
         disease_alerts |-> c.disease_alerts,
         historical_insect_risks |-> c.historical_insect_risks,
         historical_disease_risks |-> historical_disease_risks,
         phenophase_summary |-> {<<i, g.phenophase_dates[i]>> :
                                    i \in {j \in 1..10 : g.phenophase_dates[j] # NaN}},
         expected_phenophase_summary |->
             {<<i, c.question_date + DaysToReach(g, c.sowing_window, i)>> :
                 i \in Expected(g, c.sowing_window)},
         harvest |-> predict_harvest_dates(g.cumulative_gdd, c.sowing_window,
                                           c.question_date)])

\* A call of a scanner: its arguments and its fresh locals.
StartScan(k, sowing_date, end_date, p4_start_date, pbw_gdd, risk_threshold) ==
    /\ kind' = k
    /\ hist_sowing_date' = sowing_date /\ hist_end_date' = end_date
    /\ hist_p4_start_date' = p4_start_date /\ hist_pbw_gdd' = pbw_gdd
    /\ hist_risk_threshold' = risk_threshold
    /\ pc' = "fetch" /\ hist_weather_data' = <<>> /\ idx' = 0 /\ hist_cumulative_gdd' = 0
    /\ risk_days' = <<>> /\ first_dates' = <<>> /\ max_risks' = <<>>
    /\ max_risk_dates' = <<>> /\ counted' = {} /\ result' = None
    /\ UNCHANGED db

\* process_location returns: at is "returned" and outcome what it returned
\* (or raised).
LocReturn(c, outcome) ==
    /\ call' = [c EXCEPT !.at = "returned", !.outcome = outcome]
    /\ UNCHANGED scan_vars

\* process_location from its first statement to its first scanner call or
\* its return.
LocBegin ==
    /\ call.op = "process_location" /\ call.at = "start"
    /\ LET sowing_window == determine_sowing_window(call.sowing_date)
           c1 == [call EXCEPT !.sowing_window = sowing_window,
                              !.ran = @ \cup {"determine_sowing_window"}]
           g == update_gdd(call.sowing_date, call.question_date, min_gdd(sowing_window, 4),
                           db, sowing_window)
           ph == get_current_phenophase(g.cumulative_gdd, call.sowing_date)
           c2 == [c1 EXCEPT !.gdd = g, !.phenophase = ph,
                            !.ran = @ \cup {"update_gdd", "get_current_phenophase"}]
           weather_row == RowsOn(g.weather_data, call.question_date)
           c3 == [c2 EXCEPT
                    !.pbw_risk = evaluate_pbw_risk(g.pbw_gdd, ph[1], weather_row,
                                                   call.question_date),
                    !.insect_alerts = evaluate_insect_risks(weather_row, ph[1],
                                                            call.question_date),
                    !.disease_alerts = evaluate_disease_risks(g.weather_data, ph[1],
                                                              call.question_date),
                    !.ran = @ \cup {"evaluate_pbw_risk", "evaluate_insect_risks",
                                    "evaluate_disease_risks",
                                    "calculate_historical_insect_risks"},
                    !.at = "historical_insects"]
       IN  IF call.sowing_date = NaN
           THEN LocReturn(call, LocCatch(Raises(
                    "AttributeError: 'NoneType' object has no attribute 'date'")))
           ELSE IF sowing_window = None
           THEN LocReturn(c1, LocCatch(Returns(
                    [text |-> "Error: Sowing date is outside valid sowing windows.",
                     sowing_date |-> call.sowing_date])))
           ELSE IF ph[1] = None
           THEN LocReturn(c2, LocCatch(Returns(
                    [text |-> "No phenophase found", cumulative_gdd |-> g.cumulative_gdd])))
           ELSE IF call.insects_only
           THEN /\ call' = [c2 EXCEPT !.at = "insects_only",
                                      !.ran = @ \cup {"calculate_historical_insect_risks"}]
                /\ StartScan("insect", call.sowing_date, call.question_date,
                             g.p4_start_date, g.pbw_gdd, call.risk_threshold)
           ELSE IF call.diseases_only
           THEN /\ call' = [c2 EXCEPT !.at = "diseases_only",
                                      !.ran = @ \cup {"calculate_historical_disease_risks"}]
                /\ StartScan("disease", call.sowing_date, call.question_date,
                             NaN, 0, call.risk_threshold)
           ELSE IF "date" \notin g.columns
           THEN LocReturn(c2, LocCatch(Raises("KeyError: 'date'")))
           ELSE /\ call' = c3
                /\ StartScan("insect", call.sowing_date, call.question_date,
                             g.p4_start_date, g.pbw_gdd, call.risk_threshold)

\* A scanner has returned to process_location: in the single-summary modes
\* process_location returns the summary; otherwise the insect scanner is
\* followed by the disease scanner, and that one by the report.
LocScanReturned ==
    /\ call.op = "process_location"
    /\ call.at \in {"insects_only", "diseases_only", "historical_insects",
                    "historical_diseases"}
    /\ pc = "done"
    /\ CASE call.at = "insects_only" ->
              LocReturn(call, LocCatch(Returns([text |-> "Insect Risk Summary",
                                                summary |-> result])))
         [] call.at = "diseases_only" ->
              LocReturn(call, LocCatch(Returns([text |-> "Disease Risk Summary",
                                                summary |-> result])))
         [] call.at = "historical_insects" ->
              /\ call' = [call EXCEPT !.at = "historical_diseases",
                                      !.historical_insect_risks = result,
                                      !.ran = @ \cup {"calculate_historical_disease_risks"}]
              /\ StartScan("disease", call.sowing_date, call.question_date,
                           NaN, 0, call.risk_threshold)
         [] call.at = "historical_diseases" ->
              LocReturn(call, LocCatch(LocReport(call, call.gdd, result)))

\* The sowing dates offered to process_location: a valid one, the days just
\* outside the first and last window, one far outside, and a value that is
\* not a date.
LocSowingDates == {MkDate(7, 15), MkDate(5, 19), MkDate(7, 16), MkDate(8, 1), NaN}

LocHeatLengths == {0, 3, 21}

\* The tails of the tables offered to process_location: none, or one day.
LocTails == {<<>>} \cup {<<k>> : k \in FreeRowKinds}

InitLoc ==
    /\ \E sowing_date \in LocSowingDates, h \in LocHeatLengths, tail \in LocTails,
          late \in 0..1, insects_only \in BOOLEAN, diseases_only \in BOOLEAN,
          risk_threshold \in {30, 40} :
        LET first == IF sowing_date = NaN THEN MkDate(7, 15) ELSE sowing_date
        IN  /\ db = Series(first, h, tail)
            /\ call = [op |-> "process_location", at |-> "start",
                       sowing_date |-> sowing_date,
                       question_date |-> first + Max2(h + Len(tail), 1) - 1 + late,
                       insects_only |-> insects_only, diseases_only |-> diseases_only,
                       risk_threshold |-> risk_threshold,
                       ran |-> {}, sowing_window |-> None, gdd |-> None,
                       phenophase |-> None, pbw_risk |-> None, insect_alerts |-> None,
                       disease_alerts |-> None, historical_insect_risks |-> None,
                       outcome |-> None]
    /\ kind = "none" /\ hist_sowing_date = NaN /\ hist_end_date = NaN
    /\ hist_p4_start_date = NaN /\ hist_pbw_gdd = 0 /\ hist_risk_threshold = 40
    /\ pc = "done" /\ hist_weather_data = <<>> /\ idx = 0 /\ hist_cumulative_gdd = 0
    /\ risk_days = <<>> /\ first_dates = <<>> /\ max_risks = <<>>
    /\ max_risk_dates = <<>> /\ counted = {} /\ result = None

NextLoc ==
    \/ LocBegin
    \/ ScanFetch
    \/ InsectScanDay
    \/ DiseaseScanDay
    \/ ScanReturn
    \/ LocScanReturned

SpecLoc == InitLoc /\ [][NextLoc]_vars

\* ------------------------------------------------------------------ claims

\* The date range a window label names, read off the label.
LabelRange(w) ==
    CASE w = "May 20-23" -> <<MkDate(5, 20), MkDate(5, 23)>>
      [] w = "May 24-27" -> <<MkDate(5, 24), MkDate(5, 27)>>
      [] w = "May 28-31" -> <<MkDate(5, 28), MkDate(5, 31)>>
      [] w = "June 1-4" -> <<MkDate(6, 1), MkDate(6, 4)>>
      [] w = "June 5-8" -> <<MkDate(6, 5), MkDate(6, 8)>>
      [] w = "June 9-12" -> <<MkDate(6, 9), MkDate(6, 12)>>
      [] w = "June 13-16" -> <<MkDate(6, 13), MkDate(6, 16)>>
      [] w = "June 17-20" -> <<MkDate(6, 17), MkDate(6, 20)>>
      [] w = "June 21-24" -> <<MkDate(6, 21), MkDate(6, 24)>>
      [] w = "June 25-28" -> <<MkDate(6, 25), MkDate(6, 28)>>
      [] w = "June 29-July 2" -> <<MkDate(6, 29), MkDate(7, 2)>>
      [] w = "July 3-6" -> <<MkDate(7, 3), MkDate(7, 6)>>
      [] w = "July 7-10" -> <<MkDate(7, 7), MkDate(7, 10)>>
      [] w = "July 11-14" -> <<MkDate(7, 11), MkDate(7, 14)>>
      [] w = "July 15" -> <<MkDate(7, 15), MkDate(7, 15)>>

\* C1: determine_sowing_window returns, for a date from May 20 through July 15,
\* the one window label whose date range holds the date, and None for every
\* other date; the 15 ranges follow one another without gap or overlap from
\* May 20 to July 15.
C1_SowingWindowTotal ==
    call.op = "determine_sowing_window" =>
        LET d == call.sowing_date
            r == call.result
        IN  /\ (MkDate(5, 20) <= d /\ d <= MkDate(7, 15)) =>
                   /\ r \in WindowSet
                   /\ LabelRange(r)[1] <= d /\ d <= LabelRange(r)[2]
                   /\ \A w \in WindowSet \ {r} :
                          ~(LabelRange(w)[1] <= d /\ d <= LabelRange(w)[2])
            /\ ~(MkDate(5, 20) <= d /\ d <= MkDate(7, 15)) => r = None
            /\ LabelRange(Windows[1])[1] = MkDate(5, 20)
            /\ LabelRange(Windows[15])[2] = MkDate(7, 15)
            /\ \A i \in 1..14 :
                   LabelRange(Windows[i + 1])[1] = LabelRange(Windows[i])[2] + 1

C1_Witness ==
    /\ call.op = "determine_sowing_window"
    /\ call.sowing_date = MkDate(7, 1)
    /\ call.result = "June 29-July 2"

\* C3 as claimed: calculate_gdd returns 0 for every non-missing pair whose tmax
\* is at most the base temperature 15.6.
C3_ColdDayIsZero ==
    (/\ call.op = "calculate_gdd"
     /\ call.tmax # NaN /\ call.tmin # NaN
     /\ call.tmax <= tbase) => call.result = 0

\* The value of the weather parameter a condition reads (NaN when missing);
\* the rainy-day count is always available.
ParamValue(cond, weather_row, rainy_days) ==
    IF cond.parameter = "rainy_days" THEN rainy_days
    ELSE IF weather_row = <<>> THEN NaN
    ELSE IF cond.parameter = "temp_max" THEN weather_row[1].tmax
    ELSE IF cond.parameter = "humidity" THEN weather_row[1].humidity
    ELSE IF cond.parameter = "sunshine_hours" THEN weather_row[1].sunshine_hours
    ELSE weather_row[1].rain_prob

Satisfied(cond, v) ==
    IF cond.parameter = "rainy_days" THEN v >= cond.value
    ELSE cond.range[1] <= v /\ v <= cond.range[2]

RECURSIVE SatisfiedWeight(_, _, _, _)
\* Sum of the weights of the satisfied conditions among the first n.
SatisfiedWeight(conditions, n, weather_row, rainy_days) ==
    IF n = 0 THEN 0
    ELSE LET v == ParamValue(conditions[n], weather_row, rainy_days)
         IN  SatisfiedWeight(conditions, n - 1, weather_row, rainy_days)
             + (IF v # NaN /\ Satisfied(conditions[n], v) THEN conditions[n].weight ELSE 0)

RECURSIVE EvaluatedWeight(_, _, _, _)
\* Sum of the weights of the conditions among the first n whose parameter is
\* not missing.
EvaluatedWeight(conditions, n, weather_row, rainy_days) ==
    IF n = 0 THEN 0
    ELSE LET v == ParamValue(conditions[n], weather_row, rainy_days)
         IN  EvaluatedWeight(conditions, n - 1, weather_row, rainy_days)
             + (IF v # NaN THEN conditions[n].weight ELSE 0)

\* A result lists rule `rule` exactly as the claimed percentage
\* 100 * satisfied / evaluated (0 when nothing is evaluable) requires: an alert
\* carrying that percentage when it reaches the rule's threshold, else none.
AlertsAsClaimed(alerts, rule, weather_row, rainy_days) ==
    LET n == Len(rule.conditions)
        sat == SatisfiedWeight(rule.conditions, n, weather_row, rainy_days)
        ev == EvaluatedWeight(rule.conditions, n, weather_row, rainy_days)
        mine == {i \in 1..Len(alerts) : alerts[i].name = rule.name}
    IN  IF ev > 0 /\ 100 * sat >= rule.threshold * ev
        THEN \E i \in mine : alerts[i].risk_percentage * ev = 100 * sat
        ELSE mine = {}

\* C2 as claimed: the risk percentage of every applicable insect rule, disease
\* rule and of the PBW model is 100 * (weights of satisfied conditions) /
\* (weights of the conditions whose parameter is not missing), and 0 when no
\* condition is evaluable.
C2_RiskOverEvaluatedWeights ==
    /\ (call.op = "evaluate_insect_risks" /\ call.weather_row # <<>>) =>
           \A k \in 1..Len(insect_risks) :
               call.phenophase \in insect_risks[k].phenophases =>
                   AlertsAsClaimed(call.result, insect_risks[k], call.weather_row, 0)
    /\ (call.op = "evaluate_disease_risks" /\ RowsOn(call.weather_data, call.date) # <<>>) =>
           \A k \in 1..Len(disease_risks) :
               call.phenophase \in disease_risks[k].phenophases =>
                   AlertsAsClaimed(call.result, disease_risks[k],
                                   RowsOn(call.weather_data, call.date),
                                   calculate_rainy_days(call.weather_data, call.date))
    /\ (call.op = "evaluate_pbw_risk" /\ call.result.stage # "Not active") =>
           LET n == Len(pbw_weather_conditions)
               sat == SatisfiedWeight(pbw_weather_conditions, n, call.weather_row, 0)
               ev == EvaluatedWeight(pbw_weather_conditions, n, call.weather_row, 0)
           IN  IF ev > 0 THEN call.result.risk_percentage * ev = 100 * sat
               ELSE call.result.risk_percentage = 0

\* What a row adds to the sum named by what.
RowTerm(what, row) ==
    IF what = "gdd" THEN calculate_gdd(row.tmax, row.tmin) ELSE row.precipitation

RECURSIVE RangeSum(_, _, _, _, _)
\* The sum named by what over the first n rows of the table dated from
\* sowing_date through question_date.
RangeSum(what, table, n, sowing_date, question_date) ==
    IF n = 0 THEN 0
    ELSE RangeSum(what, table, n - 1, sowing_date, question_date)
         + (IF sowing_date <= table[n].date /\ table[n].date <= question_date
            THEN RowTerm(what, table[n]) ELSE 0)

\* C4 as claimed: update_gdd returns as cumulative GDD the sum of the daily GDD
\* of the table's rows dated from the sowing date through the question date,
\* and as total rainfall the sum of the precipitation of the same rows.
C4_CumulativeGddIsRangeSum ==
    call.op = "update_gdd" =>
        /\ call.result.cumulative_gdd
             = RangeSum("gdd", call.table, Len(call.table),
                        call.sowing_date, call.question_date)
        /\ call.result.total_rainfall
             = RangeSum("rain", call.table, Len(call.table),
                        call.sowing_date, call.question_date)

\* The dates of the table's rows, from sowing_date through question_date, at
\* which the running GDD sum has reached the bound g.
PassageDates(table, sowing_date, question_date, g) ==
    {table[n].date : n \in {m \in 1..Len(table) :
        /\ sowing_date <= table[m].date
        /\ table[m].date <= question_date
        /\ RangeSum("gdd", table, m, sowing_date, question_date) >= g}}

\* C7 as claimed: update_gdd returns for each phenophase the first walked day
\* on which the running cumulative GDD is at or above the phenophase's lower
\* bound, and no date for a phenophase whose bound no walked day meets.
C7_FirstPassageDates ==
    call.op = "update_gdd" =>
        \A i \in 1..10 :
            LET days == PassageDates(call.table, call.sowing_date, call.question_date,
                                     min_gdd(call.sowing_window, i))
            IN  call.result.phenophase_dates[i]
                  = IF days = {} THEN NaN
                    ELSE CHOOSE d \in days : \A e \in days : d <= e

\* C5: get_current_phenophase returns (None, None) for a sowing date with no
\* window; otherwise the highest-numbered phenophase of the window's row whose
\* lower bound is <= the cumulative GDD, with its description, and
\* P0 / Pre-emergence when the GDD is below every lower bound.
C5_HighestReachedPhenophase ==
    call.op = "get_current_phenophase" =>
        LET w == determine_sowing_window(call.sowing_date)
            reached == {i \in 1..10 : min_gdd(w, i) <= call.cumulative_gdd}
        IN  IF w = None THEN call.result = <<None, None>>
            ELSE IF reached = {} THEN call.result = <<"P0", "Pre-emergence">>
            ELSE \E i \in reached :
                     /\ \A j \in reached : j <= i
                     /\ call.result = <<Phenophases[i], phenophase_descriptions[i]>>

C5_Witness ==
    /\ call.op = "get_current_phenophase"
    /\ determine_sowing_window(call.sowing_date) = "June 1-4"
    /\ call.cumulative_gdd = Gdd(351)
    /\ call.result = <<"P4", "Peak flowering">>

\* C6: for a sowing date in a window and cumulative GDD values g1 <= g2, the
\* phenophase resolved for g2 is never earlier than the one resolved for g1.
C6_PhenophaseMonotonic ==
    (/\ call.op = "get_current_phenophase"
     /\ call.result[1] # None) =>
        \A g1 \in GddProbes(call.sowing_date) :
            g1 <= call.cumulative_gdd =>
                Rank(get_current_phenophase(g1, call.sowing_date)[1]) <= Rank(call.result[1])

C6_Witness ==
    /\ call.op = "get_current_phenophase"
    /\ call.result[1] = "P6"
    /\ \E g1 \in GddProbes(call.sowing_date) :
           /\ g1 < call.cumulative_gdd
           /\ get_current_phenophase(g1, call.sowing_date)[1] = "P5"

\* C8: at every point of the insect and disease scans the four per-name maps
\* have the same names, and every name with an entry has
\* first_conducive_date <= max_risk_date and conducive_days >= 1.
C8_HistoricalEntriesConsistent ==
    /\ DOMAIN first_dates = DOMAIN risk_days
    /\ DOMAIN max_risks = DOMAIN risk_days
    /\ DOMAIN max_risk_dates = DOMAIN risk_days
    /\ \A n \in DOMAIN risk_days :
           /\ first_dates[n] <= max_risk_dates[n]
           /\ risk_days[n] >= 1

C8_Witness ==
    /\ kind = "insect"
    /\ "Pink Boll Worm" \in DOMAIN risk_days
    /\ first_dates["Pink Boll Worm"] < max_risk_dates["Pink Boll Worm"]
    /\ risk_days["Pink Boll Worm"] >= 2

\* The rules of the running scanner, and the risk percentage a rule gets on
\* the day of row number i of the fetched frame.
ScanRules == IF kind = "insect" THEN insect_risks ELSE disease_risks

RuleRiskOn(rule, i) ==
    IF kind = "insect"
    THEN insect_risk_percentage(rule, <<hist_weather_data[i]>>)
    ELSE disease_risk_percentage(rule, <<hist_weather_data[i]>>,
                                 calculate_rainy_days(hist_weather_data, hist_weather_data[i].date))

\* C9 as claimed: in each pass of a scanner's loop, every rule applicable in
\* the day's phenophase has the day counted toward its summary if and only if
\* its risk percentage that day is >= the caller's risk_threshold.
C9_CallerThresholdAloneDecides ==
    [][(pc = "loop" /\ idx' = idx + 1) =>
          LET phenophase == get_current_phenophase(hist_cumulative_gdd', hist_sowing_date)[1]
          IN  \A k \in 1..Len(ScanRules) :
                  phenophase \in ScanRules[k].phenophases =>
                      LET risk == RuleRiskOn(ScanRules[k], idx')
                      IN  (risk >= hist_risk_threshold) <=>
                          (<<ScanRules[k].name, hist_weather_data[idx'].date, risk>>
                               \in counted' \ counted)]_vars

\* The counted days of a name, as <<name, date, risk>>.
CountedOf(n) == {e \in counted : e[1] = n}

\* C10: for each name with an entry, the highest risk is the maximum risk over
\* the counted days, its date is the earliest counted day with that risk, the
\* first conducive date is the earliest counted day (and the day count is the
\* number of counted days); the returned summary reports these values.
C10_MaxAndFirstOverCountedDays ==
    /\ \A n \in DOMAIN risk_days :
           /\ CountedOf(n) # {}
           /\ risk_days[n] = Cardinality(CountedOf(n))
           /\ \E e \in CountedOf(n) :
                  /\ e[3] = max_risks[n]
                  /\ e[2] = max_risk_dates[n]
           /\ \A e \in CountedOf(n) :
                  /\ e[3] <= max_risks[n]
                  /\ e[3] = max_risks[n] => max_risk_dates[n] <= e[2]
                  /\ first_dates[n] <= e[2]
           /\ \E e \in CountedOf(n) : e[2] = first_dates[n]
    /\ (pc = "done" /\ DOMAIN risk_days # {}) =>
           /\ result.text = "Historical Risk Summary"
           /\ DOMAIN result.entries = DOMAIN risk_days
           /\ \A n \in DOMAIN risk_days :
                  /\ result.entries[n].highest_risk = max_risks[n]
                  /\ result.entries[n].highest_risk_date = max_risk_dates[n]
                  /\ result.entries[n].first_conducive_date = first_dates[n]

\* A finished scan in which a name was counted on two days with the same,
\* highest, risk, and first on an earlier day with a lower risk.
C10_Witness ==
    /\ pc = "done"
    /\ \E n \in DOMAIN risk_days :
           /\ \E e1, e2 \in CountedOf(n) :
                  /\ e1[2] < e2[2]
                  /\ e1[3] = max_risks[n] /\ e2[3] = max_risks[n]
                  /\ max_risk_dates[n] = e1[2]
           /\ first_dates[n] < max_risk_dates[n]

\* The outcomes of process_location that are a returned result value.
LocReturned == call.op = "process_location" /\ call.at = "returned"

FirstOf(days) == IF days = {} THEN NaN ELSE CHOOSE d \in days : \A e \in days : d <= e

\* C12 as claimed: when the table has rows from the sowing date through the
\* question date but none for the question date, update_gdd still returns the
\* GDD sum, the rainfall and the first-passage dates of the rows present, with
\* no average temperature, and process_location in its full mode returns the
\* report.
C12_MissingQuestionRowIsSoft ==
    ( /\ LocReturned
      /\ call.sowing_window # None
      /\ fetch_weather_data(db, call.sowing_date, call.question_date) # <<>>
      /\ RowsOn(db, call.question_date) = <<>> ) =>
        /\ call.gdd.cumulative_gdd
             = RangeSum("gdd", db, Len(db), call.sowing_date, call.question_date)
        /\ call.gdd.total_rainfall
             = RangeSum("rain", db, Len(db), call.sowing_date, call.question_date)
        /\ \A i \in 1..10 :
              call.gdd.phenophase_dates[i]
                = FirstOf(PassageDates(db, call.sowing_date, call.question_date,
                                       min_gdd(call.sowing_window, i)))
        /\ call.gdd.avg_temp = NaN
        /\ (~call.insects_only /\ ~call.diseases_only) =>
              call.outcome.value.text = "Analysis"

\* C13: predict_harvest_dates returns the harvest-ready result exactly when
\* the cumulative GDD is at or above the P10 lower bound of the sowing window.
C13_HarvestReadyIffP10Reached ==
    call.op = "predict_harvest_dates" =>
        ( call.result.text = "Crop is harvest-ready (P10 reached)."
          <=> call.cumulative_gdd >= min_gdd(call.sowing_window, 10) )

\* predict_harvest_dates was called with the cumulative GDD exactly at the P10
\* lower bound and returned harvest-ready.
C13_Witness ==
    /\ call.op = "predict_harvest_dates"
    /\ call.cumulative_gdd = min_gdd(call.sowing_window, 10)
    /\ call.result.text = "Crop is harvest-ready (P10 reached)."

\* C14 as claimed: below the P10 lower bound predict_harvest_dates returns a
\* projected range, earliest = question date + floor(remaining_gdd / 9.4) days
\* and latest = earliest + 7 days.
C14_HarvestProjection ==
    ( /\ call.op = "predict_harvest_dates"
      /\ call.cumulative_gdd < min_gdd(call.sowing_window, 10) ) =>
        /\ call.result.text = "Harvest Prediction"
        /\ DOMAIN call.result = {"text", "earliest", "latest"}
        /\ call.result.earliest
             = call.question_date
               + ((min_gdd(call.sowing_window, 10) - call.cumulative_gdd) \div 188)
        /\ call.result.latest = call.result.earliest + 7

\* C15: calculate_gdd is non-decreasing in tmax, does not depend on tmin at or
\* below 15.6 nor on tmax at or above 34.0, and calculate_gdd(30, 10) =
\* calculate_gdd(30, 15.6) = 7.2.
C15_GddClampedAndMonotonic ==
    ( /\ call.op = "calculate_gdd"
      /\ call.tmax # NaN /\ call.tmin # NaN ) =>
        /\ \A t1 \in Temps \ {NaN} :
              t1 <= call.tmax => calculate_gdd(t1, call.tmin) <= call.result
        /\ call.tmin <= 156 => call.result = calculate_gdd(call.tmax, 156)
        /\ call.tmax >= 340 => call.result = calculate_gdd(340, call.tmin)
        /\ (call.tmax = 300 /\ call.tmin \in {100, 156}) => call.result = 144

\* calculate_gdd(40, 20) was called and returned 11.4, the value at tmax 34.
C15_Witness ==
    /\ call.op = "calculate_gdd"
    /\ call.tmax = 400 /\ call.tmin = 200
    /\ call.result = 228

\* The scan of the sixty days from June 1 has taken all sixty rows.
SixtyDaysTaken ==
    /\ kind \in {"insect", "disease"}
    /\ hist_sowing_date = MkDate(6, 1) /\ db = SixtyDays /\ idx = 60

RainyMonthToDate(weather_data, date) ==
    Cardinality({d \in MkDate(month(date), 1)..date :
                    \E i \in 1..Len(weather_data) :
                        /\ weather_data[i].date = d
                        /\ weather_data[i].precipitation # NaN
                        /\ weather_data[i].precipitation > 0})

\* The Fusarium Wilt risk among the alerts, 0 when there is no such alert.
FusariumRisk(alerts) ==
    IF \E i \in 1..Len(alerts) : alerts[i].name = "Fusarium Wilt"
    THEN alerts[CHOOSE i \in 1..Len(alerts) : alerts[i].name = "Fusarium Wilt"].risk_percentage
    ELSE 0

\* C17: in a phenophase of the Fusarium Wilt rule, on a date the frame has a
\* row for, the rule's rainy_days condition adds its 30% to the risk exactly
\* when the month-to-date count of rainy days is at least 5: the alert carries
\* the risk of the temperature and humidity conditions plus that 30%, and
\* there is no alert when the total is below the rule's threshold 40.
C17_RainyDaysAtLeastFive ==
    ( /\ call.op = "evaluate_disease_risks"
      /\ call.phenophase \in {"P3", "P4", "P5", "P6"}
      /\ RowsOn(call.weather_data, call.date) # <<>> ) =>
        LET row == RowsOn(call.weather_data, call.date)[1]
            rainy_days == RainyMonthToDate(call.weather_data, call.date)
            risk == (IF row.tmax # NaN /\ 250 <= row.tmax /\ row.tmax <= 320 THEN 40 ELSE 0)
                    + (IF row.humidity # NaN /\ 60 <= row.humidity /\ row.humidity <= 85
                       THEN 30 ELSE 0)
                    + (IF rainy_days >= 5 THEN 30 ELSE 0)
        IN  FusariumRisk(call.result) = IF risk >= 40 THEN risk ELSE 0

\* evaluate_disease_risks was called on a date with exactly 5 rainy days in
\* the month to date and the rainy_days condition lifted the Fusarium Wilt
\* risk from the humidity condition's 30% to 60%.
C17_Witness ==
    /\ call.op = "evaluate_disease_risks"
    /\ call.phenophase = "P6"
    /\ RainyMonthToDate(call.weather_data, call.date) = 5
    /\ Len(call.weather_data) = 6
    /\ FusariumRisk(call.result) = 60

\* C18: in the catalog row of the sowing date a phenophase is resolved for
\* (any of the 15 rows), no phenophase has a lower bound below that of an
\* earlier phenophase, in the order P1 to P10.
C18_LowerBoundsNonDecreasing ==
    ( /\ call.op = "get_current_phenophase"
      /\ determine_sowing_window(call.sowing_date) # None ) =>
        LET row == phenophase_thresholds(determine_sowing_window(call.sowing_date))
        IN  /\ Len(row) = 10
            /\ \A i \in 1..10, j \in 1..10 : i < j => row[i][1] <= row[j][1]

\* A phenophase was resolved at the P5 lower bound of the June 17-20 row,
\* whose P4 and P5 intervals overlap.
C18_Witness ==
    /\ call.op = "get_current_phenophase"
    /\ determine_sowing_window(call.sowing_date) = "June 17-20"
    /\ call.cumulative_gdd = min_gdd("June 17-20", 5)
    /\ call.result[1] = "P5"

\* Low < Moderate < High.
SeverityRank(severity) ==
    CASE severity = "Low" -> 1 [] severity = "Moderate" -> 2 [] severity = "High" -> 3

\* The severity the PBW clock alone gives: Low below 300 degree-days,
\* Moderate below 600, else High.
GddSeverity(pbw_gdd) ==
    IF pbw_gdd < 20 * 300 THEN "Low" ELSE IF pbw_gdd < 20 * 600 THEN "Moderate" ELSE "High"

\* C19: in a phenophase P4..P8 the adjusted severity evaluate_pbw_risk returns
\* is High when the weather-based risk percentage is at least 60, and the
\* GDD-based severity otherwise; it is never below the GDD-based severity.
C19_SeverityOnlyEscalates ==
    ( /\ call.op = "evaluate_pbw_risk"
      /\ call.phenophase \in {"P4", "P5", "P6", "P7", "P8"} ) =>
        /\ call.result.adjusted_severity
             = IF call.result.risk_percentage >= 60 THEN "High"
               ELSE GddSeverity(call.pbw_gdd)
        /\ SeverityRank(call.result.adjusted_severity)
             >= SeverityRank(GddSeverity(call.pbw_gdd))

\* evaluate_pbw_risk was called in P5 with a PBW clock below 300 degree-days
\* and weather scoring 80%, and returned High.
C19_Witness ==
    /\ call.op = "evaluate_pbw_risk"
    /\ call.phenophase = "P5"
    /\ call.pbw_gdd = 20 * 299
    /\ call.result.risk_percentage = 80
    /\ call.result.adjusted_severity = "High"

\* C20: for a phenophase outside P4..P8 evaluate_pbw_risk returns stage
\* "Not active", risk percentage 0 and the single recommendation "No action
\* required.", whatever the PBW clock and the weather row; a result with
\* another stage is returned only in P4..P8.
C20_PbwActiveOnlyP4ToP8 ==
    call.op = "evaluate_pbw_risk" =>
        IF call.phenophase \in {"P4", "P5", "P6", "P7", "P8"}
        THEN call.result.stage \in {"Larvae", "Pupae", "Adult"}
        ELSE /\ call.result.stage = "Not active"
             /\ call.result.risk_percentage = 0
             /\ call.result.recommendations = <<"No action required.">>

\* evaluate_pbw_risk was called in P9 with a PBW clock of 1200 degree-days and
\* a weather row scoring all three conditions, and returned Not active.
C20_Witness ==
    /\ call.op = "evaluate_pbw_risk"
    /\ call.phenophase = "P9"
    /\ call.pbw_gdd = 20 * 1200
    /\ call.weather_row # <<>>
    /\ pbw_risk_percentage(call.weather_row) = 100
    /\ call.result.stage = "Not active"

\* C21: in a phenophase P4..P8 evaluate_pbw_risk returns the stage Larvae for a
\* PBW clock below 200 degree-days, Pupae below 400 and Adult otherwise, and
\* the generation min(floor(pbw_gdd / 600) + 1, 3); any other weather row gives
\* the same stage and generation for the same clock.
C21_StageAndGenerationFromClock ==
    ( /\ call.op = "evaluate_pbw_risk"
      /\ call.phenophase \in {"P4", "P5", "P6", "P7", "P8"} ) =>
        /\ call.result.stage
             = IF call.pbw_gdd < 20 * 200 THEN "Larvae"
               ELSE IF call.pbw_gdd < 20 * 400 THEN "Pupae" ELSE "Adult"
        /\ \E n \in -1..3 :
              /\ 20 * 600 * n <= call.pbw_gdd /\ call.pbw_gdd < 20 * 600 * (n + 1)
              /\ call.result.generation = <<"Generation", IF n + 1 < 3 THEN n + 1 ELSE 3>>
        /\ \A weather_row \in RiskRows :
              LET other == evaluate_pbw_risk(call.pbw_gdd, call.phenophase, weather_row,
                                             MkDate(7, 20))
              IN  /\ other.stage = call.result.stage
                  /\ other.generation = call.result.generation

\* evaluate_pbw_risk was called in P6 with a PBW clock of 1900 degree-days and
\* returned Adult, generation 3.
C21_Witness ==
    /\ call.op = "evaluate_pbw_risk"
    /\ call.phenophase = "P6"
    /\ call.pbw_gdd = 20 * 1900
    /\ call.weather_row # <<>>
    /\ call.result.stage = "Adult"
    /\ call.result.generation = <<"Generation", 3>>

\* C22 as claimed: update_gdd returns as PBW-clock start date the first walked
\* day on which the cumulative GDD is at or above the P4 lower bound, and as
\* PBW GDD the sum of the daily GDD of the rows from that day through the
\* question date; the date is unset and the sum 0 when no walked day reaches
\* the bound.
C22_PbwClockFromP4 ==
    call.op = "update_gdd" =>
        LET start == FirstOf(PassageDates(call.table, call.sowing_date, call.question_date,
                                          min_gdd(call.sowing_window, 4)))
        IN  /\ call.result.p4_start_date = start
            /\ call.result.pbw_gdd
                 = IF start = NaN THEN 0
                   ELSE RangeSum("gdd", call.table, Len(call.table), start,
                                 call.question_date)

\* The day of the scanner's last finished pass, and the phenophase that pass
\* computed for it from the running cumulative GDD.
LastScanned == pc = "loop" /\ idx >= 1 /\ hist_weather_data[idx].date <= hist_end_date

LastPhenophase == get_current_phenophase(hist_cumulative_gdd, hist_sowing_date)[1]

\* The alerts the scanner's evaluator returns for the last scanned day.
LastAlerts ==
    IF kind = "insect"
    THEN evaluate_insect_risks(RowsOn(hist_weather_data, hist_weather_data[idx].date),
                               LastPhenophase, hist_weather_data[idx].date)
    ELSE evaluate_disease_risks(hist_weather_data, LastPhenophase, hist_weather_data[idx].date)

\* C23: on a scanned day whose phenophase is not in a rule's phenophases, the
\* evaluator returns no alert of that rule and the day is not counted toward
\* the rule's entry of the historical summary.
C23_RuleSkippedOutsideItsPhenophases ==
    LastScanned =>
        \A k \in 1..Len(ScanRules) :
            LastPhenophase \notin ScanRules[k].phenophases =>
                /\ \A a \in 1..Len(LastAlerts) : LastAlerts[a].name # ScanRules[k].name
                /\ \A e \in CountedOf(ScanRules[k].name) : e[2] # hist_weather_data[idx].date

\* A scanned day on which a rule's weather conditions score at or above both
\* thresholds while the day's phenophase is outside the rule's set, and a
\* rule that does apply was counted.
C23_Witness ==
    /\ LastScanned
    /\ \E k \in 1..Len(ScanRules) :
           /\ LastPhenophase \notin ScanRules[k].phenophases
           /\ RuleRiskOn(ScanRules[k], idx) >= ScanRules[k].threshold
           /\ RuleRiskOn(ScanRules[k], idx) >= hist_risk_threshold
    /\ \E e \in counted : e[1] # "Pink Boll Worm" /\ e[2] = hist_weather_data[idx].date

RECURSIVE GddThrough(_)
\* The sum of the daily GDD of the first i rows of the fetched frame.
GddThrough(i) ==
    IF i = 0 THEN 0
    ELSE GddThrough(i - 1) + calculate_gdd(hist_weather_data[i].tmax, hist_weather_data[i].tmin)

\* The phenophase of the day of row number i of the fetched frame.
PhenophaseOn(i) == get_current_phenophase(GddThrough(i), hist_sowing_date)[1]

\* A rule applicable on the day of row i has a risk percentage at or above the
\* caller's risk_threshold, or (insect pass, clock started) Pink Boll Worm has.
ReachedThresholdOn(i) ==
    \/ \E k \in 1..Len(ScanRules) :
           /\ PhenophaseOn(i) \in ScanRules[k].phenophases
           /\ RuleRiskOn(ScanRules[k], i) >= hist_risk_threshold
    \/ /\ kind = "insect"
       /\ PhenophaseOn(i) # None
       /\ hist_p4_start_date # NaN
       /\ hist_weather_data[i].date >= hist_p4_start_date
       /\ evaluate_pbw_risk(hist_pbw_gdd, PhenophaseOn(i), <<hist_weather_data[i]>>,
                            hist_weather_data[i].date).risk_percentage >= hist_risk_threshold

\* C24 as claimed: a finished scanner has returned the "No historical ...
\* risks ... detected" result exactly when no rule (nor Pink Boll Worm in the
\* insect pass) reached the risk threshold on any scanned day, the empty
\* series included; the summary it returns otherwise has an entry.
C24_NoneDetectedIffNothingReached ==
    pc = "done" =>
        /\ result.text = "No historical risks detected"
              <=> ~ \E i \in 1..Len(hist_weather_data) : ReachedThresholdOn(i)
        /\ result.text # "No historical risks detected" => DOMAIN result.entries # {}

\* C25: when the query returns no rows for the range update_gdd asks for,
\* update_gdd returns cumulative GDD 0, no PBW-clock start date, PBW GDD 0,
\* total rainfall 0, no average temperature and an unset date for each of
\* P1..P10.
C25_EmptySeriesGivesZeroResults ==
    (/\ call.op = "update_gdd"
     /\ fetch_weather_data(call.table, call.sowing_date, call.question_date + 90) = <<>>) =>
        /\ call.result.cumulative_gdd = 0
        /\ call.result.p4_start_date = NaN
        /\ call.result.pbw_gdd = 0
        /\ call.result.total_rainfall = 0
        /\ call.result.avg_temp = NaN
        /\ DOMAIN call.result.phenophase_dates = 1..10
        /\ \A i \in 1..10 : call.result.phenophase_dates[i] = NaN

\* update_gdd was called over a table with no rows and returned a frame
\* without rows.
C25_Witness ==
    /\ call.op = "update_gdd"
    /\ call.table = <<>>
    /\ call.result.weather_data = <<>>

\* C26: the "Pink Boll Worm" entry exists only in the insect pass and only
\* when the PBW-clock start date is set; every day it counts, and so its
\* first conducive date, is on or after that start date; the disease summary
\* never has the entry.
C26_PbwOnlyAfterClockStart ==
    /\ \A e \in CountedOf("Pink Boll Worm") :
           /\ kind = "insect"
           /\ hist_p4_start_date # NaN
           /\ e[2] >= hist_p4_start_date
    /\ "Pink Boll Worm" \in DOMAIN risk_days =>
           /\ kind = "insect"
           /\ hist_p4_start_date # NaN
           /\ first_dates["Pink Boll Worm"] >= hist_p4_start_date
    /\ (pc = "done" /\ result.text = "Historical Risk Summary"
           /\ "Pink Boll Worm" \in DOMAIN result.entries) =>
           /\ result.of = "insect"
           /\ hist_p4_start_date # NaN
           /\ result.entries["Pink Boll Worm"].first_conducive_date >= hist_p4_start_date

\* A finished insect scan whose Pink Boll Worm entry starts on the PBW-clock
\* start date, although on an earlier scanned day, in an active phenophase,
\* the Pink Boll Worm weather risk was at or above the threshold.
C26_Witness ==
    /\ pc = "done" /\ kind = "insect"
    /\ "Pink Boll Worm" \in DOMAIN risk_days
    /\ first_dates["Pink Boll Worm"] = hist_p4_start_date
    /\ \E i \in 1..Len(hist_weather_data) :
           /\ hist_weather_data[i].date < hist_p4_start_date
           /\ PhenophaseOn(i) \in PbwActivePhenophases
           /\ evaluate_pbw_risk(hist_pbw_gdd, PhenophaseOn(i), <<hist_weather_data[i]>>,
                                hist_weather_data[i].date).risk_percentage
                  >= hist_risk_threshold

\* Position of a resolved phenophase, None (no window) before P0.
StageOf(gdd) ==
    LET p == get_current_phenophase(gdd, hist_sowing_date)[1]
    IN  IF p = None THEN 0 - 1 ELSE Rank(p)

\* C27 as claimed: in each pass of a scanner's loop the running cumulative GDD
\* does not decrease, and the phenophase resolved from it is not an earlier
\* stage than the one resolved from the value before the pass.
C27_CumulativeGddNeverDecreases ==
    [][(pc = "loop" /\ idx' = idx + 1) =>
          /\ hist_cumulative_gdd' >= hist_cumulative_gdd
          /\ StageOf(hist_cumulative_gdd') >= StageOf(hist_cumulative_gdd)]_vars

\* The days the insect scanner counts among the first n rows of the fetched
\* frame, as <<name, date, risk>>, written from the weather series, the sowing
\* date, the end date, p4_start_date and risk_threshold only: the rule alerts
\* that pass both thresholds, and the Pink Boll Worm weather score of the days
\* on or after the clock's start in an active phenophase.
InsectCountedUpTo(n) ==
    LET days == {i \in 1..n : hist_weather_data[i].date <= hist_end_date}
    IN  {<<insect_risks[k].name, hist_weather_data[i].date,
           insect_risk_percentage(insect_risks[k], <<hist_weather_data[i]>>)>> :
            <<i, k>> \in {x \in days \X (1..Len(insect_risks)) :
                 /\ PhenophaseOn(x[1]) \in insect_risks[x[2]].phenophases
                 /\ insect_risk_percentage(insect_risks[x[2]], <<hist_weather_data[x[1]]>>)
                        >= insect_risks[x[2]].threshold
                 /\ insect_risk_percentage(insect_risks[x[2]], <<hist_weather_data[x[1]]>>)
                        >= hist_risk_threshold}}
        \cup
        {<<"Pink Boll Worm", hist_weather_data[i].date,
           pbw_risk_percentage(<<hist_weather_data[i]>>)>> :
            i \in {j \in days :
                 /\ hist_p4_start_date # NaN
                 /\ hist_weather_data[j].date >= hist_p4_start_date
                 /\ PhenophaseOn(j) \in PbwActivePhenophases
                 /\ pbw_risk_percentage(<<hist_weather_data[j]>>) >= hist_risk_threshold}}

\* The summary entry of a name, from its counted days.
EntryOf(days) ==
    LET highest == CHOOSE e \in days : \A f \in days : f[3] <= e[3]
        highest_days == {e \in days : e[3] = highest[3]}
    IN  [first_conducive_date |-> (CHOOSE e \in days : \A f \in days : e[2] <= f[2])[2],
         conducive_days |-> Cardinality(days),
         highest_risk |-> highest[3],
         highest_risk_date |->
             (CHOOSE e \in highest_days : \A f \in highest_days : e[2] <= f[2])[2]]

\* C30: the days the insect scanner counts, and the summary it returns, are
\* those determined by the weather series, sowing date, end date,
\* p4_start_date and risk_threshold; the pbw_gdd argument has no part in them.
C30_InsectSummaryIgnoresPbwGdd ==
    (kind = "insect" /\ pc \in {"loop", "done"}) =>
        /\ counted = InsectCountedUpTo(idx)
        /\ pc = "done" =>
              LET names == {e[1] : e \in InsectCountedUpTo(idx)}
              IN  IF names = {}
                  THEN result.text = "No historical risks detected"
                  ELSE /\ result.text = "Historical Risk Summary"
                       /\ result.entries
                            = [n \in names |->
                                  EntryOf({e \in InsectCountedUpTo(idx) : e[1] = n})]

\* A finished insect scan called with a PBW sum of 700 degree-days whose
\* summary has a Pink Boll Worm entry.
C30_Witness ==
    /\ kind = "insect" /\ pc = "done"
    /\ hist_pbw_gdd = Gdd(700)
    /\ result.text = "Historical Risk Summary"
    /\ "Pink Boll Worm" \in DOMAIN result.entries

====
